---- MODULE Spec2Model ----
(***************************************************************************)
(* Work-queue engine of the batch pipeline: the processing_batches and     *)
(* dead_letter_items tables with their SQL primitives, the worker          *)
(* dispatcher (claimAndProcessBatches / processBatch / handleError), the   *)
(* handlers' child inserts and the maintenance function.                   *)
(*                                                                         *)
(* Every store call is one atomic step (one SQL statement or one plpgsql   *)
(* function); the steps of concurrent invocations interleave freely.       *)
(*                                                                         *)
(* Time is counted in units of one lease (5 minutes).  The current instant *)
(* is the origin of the time axis: a stored timestamp is kept as its       *)
(* distance from now() (negative = past), and the passing of time moves    *)
(* every stored timestamp into the past.  A timestamp older than every     *)
(* interval the code compares it with stays at that age.                   *)
(*                                                                         *)
(* The specifications share the variables and the actions: Spec (an empty *)
(* store, one worker invocation at a time), SpecRace (one batch,           *)
(* overlapping invocations), SpecS3 (ten pending batches, two ticks),      *)
(* SpecRequeue (a dead-lettered batch and the requeue function), SpecLive  *)
(* (recurring ticks, for progress), SpecPoison (a unit of work that always *)
(* fails), SpecClaim (the claim function on its own), SpecScheduler (the   *)
(* cron pattern test), SpecMonitor (a monitor tick over stalled and        *)
(* dead-lettered batches), SpecMaintenance (one maintenance invocation),   *)
(* SpecGate (the check of the rate-limit gate), SpecHandlerGate (the gate  *)
(* as the handlers use it), SpecTick (one run of the scheduler over its    *)
(* table), SpecWorker (one worker invocation from the request to the       *)
(* response), SpecHandler (repeated runs of a handler for the same batch)  *)
(* and SpecResolve (the handler the dispatcher picks for a batch type).    *)
(* tasks holds the invocations in flight: the dispatches of the worker,    *)
(* and the scheduler, monitor, maintenance, gate and handler invocations   *)
(* of their specifications.  api_rate_limits is the row of the one         *)
(* (api, endpoint) pair that is looked at.                                 *)
(***************************************************************************)
EXTENDS Integers, Sequences, FiniteSets, TLC

\* ---------------------------------------------------------------- bounds
\* Spec
MaxBatches == 2
MaxDeadLetters == 2
MaxTasks == 3
MaxArtists == 1
MaxPages == 1
\* SpecRace
RaceBatches == 2
RaceWorkers == 2
RaceTasks == 2
\* SpecS3
S3Batches == 10
S3Started == 4
S3Children == 1
\* SpecRequeue
RequeueBatches == 6
\* SpecLive
LiveBatches == 2
\* SpecScheduler
MaxMinute == 59
\* SpecMonitor
MonitorBatches == 7
\* SpecGate
MaxRemaining == 3
MaxResetAt == 4
\* SpecMaintenance
MaintenanceKeys == 3
\* SpecPoison
PoisonKeys == 1
\* SpecClaim
ClaimRows == 4
MaxLimit == 3
\* SpecWorker
TickBatches == 2
TickChildren == 1
\* SpecHandler
MaxRuns == 3
\* SpecResolve
ResolveBatches == 2

\* ------------------------------------------------------------- constants
NULL == 9999
now == 0
LEASE_MINUTES == 5
MAX_CONCURRENT_JOBS == 3
MAINT_EXPIRY_MINUTES == 30
MAINT_REQUEUE_LIMIT == 100
MAINT_CLEANUP_DAYS == 7
REQUEUE_MAX_RETRIES == 3

\* an interval in time units
Minutes(m) == m \div LEASE_MINUTES
Days(d) == Minutes(d * 24 * 60)

Min(a, b) == IF a < b THEN a ELSE b

Active == {"pending", "processing"}

RETRY_LIMITS(batchType) ==
  CASE batchType = "discover-artists" -> 3
    [] batchType = "album_page" -> 5
    [] batchType = "track_page" -> 5
    [] batchType = "producer_discovery" -> 3
    [] OTHER -> 3

\* metadata payloads: {artist_id} or {artist_id, offset, limit}; offset is
\* counted in pages, NULL when the key is absent
Meta(a, o) == [artist_id |-> a, offset |-> o]

VARIABLES batches, dlq, tasks, api_rate_limits

vars == <<batches, dlq, tasks, api_rate_limits>>

\* ------------------------------------------------------------ the tables
\* a row of processing_batches with the column defaults of the table.
\* created_at is only ever compared with the created_at of other rows and
\* is kept as the rank of the inserting statement.  The fields fails, seq,
\* origin and holders are history kept for the properties: the failed
\* dispatches of the row while only sequential failing ticks handled it,
\* the dead-letter row it was requeued from (0: inserted by a handler) and
\* the workers whose claim of the row is in force.  error_message is the
\* list of the texts written to it, empty for NULL (which COALESCE reads as
\* the empty text).
NewBatch(t, m, rc, c, o) ==
  [batch_type |-> t, status |-> "pending", retry_count |-> rc,
   items_total |-> 0, items_processed |-> 0,
   claimed_by |-> NULL, claim_expires_at |-> NULL,
   started_at |-> NULL, completed_at |-> NULL,
   error_message |-> <<>>, metadata |-> m, created_at |-> c,
   fails |-> 0, seq |-> TRUE, origin |-> o, holders |-> {}]

\* a row removed by DELETE
Deleted(o) ==
  [batch_type |-> "", status |-> "deleted", retry_count |-> 0,
   items_total |-> 0, items_processed |-> 0,
   claimed_by |-> NULL, claim_expires_at |-> NULL,
   started_at |-> NULL, completed_at |-> NULL,
   error_message |-> <<>>, metadata |-> Meta(NULL, NULL),
   created_at |-> NULL,
   fails |-> 0, seq |-> FALSE, origin |-> o, holders |-> {}]

Ids(bs) == DOMAIN bs

Exists(bs, i) == i \in Ids(bs) /\ bs[i].status # "deleted"

\* the history of a row stops once it was not dispatched by sequential,
\* failing worker ticks only
NotSeq(row) == [row EXCEPT !.seq = FALSE, !.fails = 0]

\* idx_batches_unique_metadata: a row (t, m) in an active status may be
\* written at position i only if no other active row carries the same key
NoUniqueIndex(bs, i, t, m) == TRUE

idx_batches_unique_metadata(bs, i, t, m) ==
  \A j \in Ids(bs) :
    (j # i /\ bs[j].status \in Active)
      => ~(bs[j].batch_type = t /\ bs[j].metadata = m)

\* INSERT INTO processing_batches (batch_type, metadata) through the REST
\* client: a unique violation is returned as an error that no caller reads
InsertBatch(bs, t, m) ==
  IF idx_batches_unique_metadata(bs, 0, t, m)
  THEN Append(bs, NewBatch(t, m, 0, Len(bs) + 1, 0))
  ELSE bs

ProcessingCount(bs) ==
  Cardinality({i \in Ids(bs) : bs[i].status = "processing"})

\* -------------------------------------------------------- api_rate_limits
\* values of the script: a timestamp column arrives from the REST client as
\* the text of an ISO date, new Date() is a Date object
JsString(t) == [type |-> "string", iso |-> t]

JsDate(t) == [type |-> "Date", time |-> t]

\* ToNumber: a Date gives its time value, the text of an ISO date is not
\* a numeric literal and gives NaN (NULL)
ToNumber(v) == IF v.type = "Date" THEN v.time ELSE NULL

\* a > b on values that are not both strings compares their numbers; a
\* comparison with NaN is false
GreaterThan(a, b) ==
  /\ ToNumber(a) # NULL /\ ToNumber(b) # NULL
  /\ ToNumber(a) > ToNumber(b)

\* new Date(text).getTime()
getTime(v) == IF v.type = "Date" THEN v.time ELSE v.iso

\* data of select('*').eq('api_name').eq('endpoint').single()
NoRateLimit == [present |-> FALSE]

RateLimit(remaining, reset_at) ==
  [present |-> TRUE, requests_remaining |-> remaining,
   reset_at |-> JsString(reset_at)]

RateLimits ==
  {NoRateLimit}
    \cup {RateLimit(r, t) : r \in (0 - 2)..MaxRemaining,
                            t \in (now - MaxResetAt)..(now + MaxResetAt)}

\* --------------------------------------------- claim_processing_batches
ClaimableAlsoProcessing(bs, v_now) ==
  {i \in Ids(bs) :
     /\ bs[i].status \in Active
     /\ (bs[i].claim_expires_at = NULL \/ bs[i].claim_expires_at < v_now)}

claimable_batches(bs, v_now) ==
  {i \in Ids(bs) :
     /\ bs[i].status = "pending"
     /\ (bs[i].claim_expires_at = NULL \/ bs[i].claim_expires_at < v_now)}

OrderedByCreatedAt(bs, i, j) == bs[i].created_at < bs[j].created_at

\* ORDER BY retry_count ASC, created_at ASC
OrderedBefore(bs, i, j) ==
  \/ bs[i].retry_count < bs[j].retry_count
  \/ /\ bs[i].retry_count = bs[j].retry_count
     /\ bs[i].created_at < bs[j].created_at

\* the sets LIMIT p_limit can return: ties in the order are broken freely
ClaimSelections(bs, v_now, p_limit) ==
  LET C == claimable_batches(bs, v_now)
  IN {S \in SUBSET C :
        /\ Cardinality(S) = Min(p_limit, Cardinality(C))
        /\ \A i \in S, j \in C \ S : ~OrderedBefore(bs, j, i)}

ClaimRestartsClock(bs, S, v_worker_id, v_now) ==
  [i \in Ids(bs) |->
     IF i \in S
     THEN [bs[i] EXCEPT !.status = "processing",
                        !.claimed_by = v_worker_id,
                        !.claim_expires_at = v_now + Minutes(5),
                        !.started_at = v_now,
                        !.holders = @ \cup {v_worker_id}]
     ELSE bs[i]]

ClaimWithoutLease(bs, S, v_worker_id, v_now) ==
  [i \in Ids(bs) |->
     IF i \in S
     THEN [bs[i] EXCEPT !.status = "processing",
                        !.claimed_by = v_worker_id,
                        !.started_at = IF @ = NULL THEN v_now ELSE @,
                        !.holders = @ \cup {v_worker_id}]
     ELSE bs[i]]

claim_processing_batches(bs, S, v_worker_id, v_now) ==
  [i \in Ids(bs) |->
     IF i \in S
     THEN [bs[i] EXCEPT !.status = "processing",
                        !.claimed_by = v_worker_id,
                        !.claim_expires_at = v_now + Minutes(5),
                        !.started_at = IF @ = NULL THEN v_now ELSE @,
                        !.holders = @ \cup {v_worker_id}]
     ELSE bs[i]]

\* ------------------------------------------------ reset_expired_batches
\* COALESCE(error_message, '') || ' Batch expired and was reset.'; of the
\* notes of resets that follow one another only one is kept
ResetNote == " Batch expired and was reset."

WithResetNote(error_message) ==
  IF error_message # <<>> /\ error_message[Len(error_message)] = ResetNote
  THEN error_message
  ELSE Append(error_message, ResetNote)

ResetNothing(bs, p_expiry_minutes, v_now) == bs

ResetAtLeaseEnd(bs, p_expiry_minutes, v_now) ==
  [i \in Ids(bs) |->
     IF /\ bs[i].status = "processing"
        /\ bs[i].claim_expires_at # NULL
        /\ bs[i].claim_expires_at < v_now
     THEN [bs[i] EXCEPT !.status = "pending",
                        !.claimed_by = NULL,
                        !.claim_expires_at = NULL,
                        !.error_message = WithResetNote(@),
                        !.holders = {},
                        !.seq = FALSE, !.fails = 0]
     ELSE bs[i]]

ResetConsumesRetry(bs, p_expiry_minutes, v_now) ==
  [i \in Ids(bs) |->
     IF /\ bs[i].status = "processing"
        /\ bs[i].claim_expires_at # NULL
        /\ bs[i].claim_expires_at < v_now - Minutes(p_expiry_minutes)
     THEN [bs[i] EXCEPT !.status = "pending",
                        !.claimed_by = NULL,
                        !.claim_expires_at = NULL,
                        !.retry_count = @ + 1,
                        !.error_message = WithResetNote(@),
                        !.holders = {},
                        !.seq = FALSE, !.fails = 0]
     ELSE bs[i]]

ResetFixedThirty(bs, p_expiry_minutes, v_now) ==
  [i \in Ids(bs) |->
     IF /\ bs[i].status = "processing"
        /\ bs[i].claim_expires_at # NULL
        /\ bs[i].claim_expires_at < v_now - Minutes(30)
     THEN [bs[i] EXCEPT !.status = "pending",
                        !.claimed_by = NULL,
                        !.claim_expires_at = NULL,
                        !.error_message = WithResetNote(@),
                        !.holders = {},
                        !.seq = FALSE, !.fails = 0]
     ELSE bs[i]]

reset_expired_batches(bs, p_expiry_minutes, v_now) ==
  [i \in Ids(bs) |->
     IF /\ bs[i].status = "processing"
        /\ bs[i].claim_expires_at # NULL
        /\ bs[i].claim_expires_at < v_now - Minutes(p_expiry_minutes)
     THEN [bs[i] EXCEPT !.status = "pending",
                        !.claimed_by = NULL,
                        !.claim_expires_at = NULL,
                        !.error_message = WithResetNote(@),
                        !.holders = {},
                        !.seq = FALSE, !.fails = 0]
     ELSE bs[i]]

\* GET DIAGNOSTICS v_count = ROW_COUNT; RETURN v_count: the rows the WHERE
\* clause of the UPDATE matched
reset_expired_v_count(bs, p_expiry_minutes, v_now) ==
  Cardinality({i \in Ids(bs) :
                 /\ bs[i].status = "processing"
                 /\ bs[i].claim_expires_at # NULL
                 /\ bs[i].claim_expires_at < v_now - Minutes(p_expiry_minutes)})

\* -------------------------------------------- requeue_dead_letter_items
\* the rows of the FOR loop's query, in created_at order (the order of the
\* rows in dlq)
RequeueItemsUpTo3(dl, p_limit) ==
  LET E == {d \in DOMAIN dl : dl[d].retry_count <= REQUEUE_MAX_RETRIES}
  IN {d \in E : Cardinality({e \in E : e < d}) < p_limit}

RequeueItems(dl, p_limit) ==
  LET E == {d \in DOMAIN dl : dl[d].retry_count < REQUEUE_MAX_RETRIES}
  IN {d \in E : Cardinality({e \in E : e < d}) < p_limit}

RequeueCountPlus2(rc) == rc + 2

\* COALESCE(v_item.retry_count, 0) + 1
RequeueCount(rc) == rc + 1

\* the loop body for the items still to do, c being the now() of the
\* transaction; the result is the tables after the loop, with ok = FALSE
\* when an INSERT raised unique_violation
RECURSIVE RequeueLoop(_, _, _, _)
RequeueLoop(todo, bs, dl, c) ==
  IF todo = {}
  THEN [ok |-> TRUE, batches |-> bs, dlq |-> dl]
  ELSE LET d == CHOOSE x \in todo : \A y \in todo : x <= y
           v_item == dl[d]
       IN IF ~idx_batches_unique_metadata(bs, 0, v_item.item_type,
                                          v_item.metadata)
          THEN [ok |-> FALSE, batches |-> bs, dlq |-> dl]
          ELSE RequeueLoop(
                 todo \ {d},
                 Append(bs, NewBatch(v_item.item_type, v_item.metadata,
                                     RequeueCount(v_item.retry_count),
                                     c, d)),
                 [dl EXCEPT ![d].retry_count = @ + 1],
                 c)

\* the whole function is one transaction: an exception undoes every row
requeue_dead_letter_items(bs, dl, p_limit) ==
  LET r == RequeueLoop(RequeueItems(dl, p_limit), bs, dl, Len(bs) + 1)
  IN IF r.ok THEN r ELSE [ok |-> FALSE, batches |-> bs, dlq |-> dl]

\* -------------------------------------------------- cleanup_old_batches
\* the DELETE with completed_at <= now() - p_days_old days
CleanupFromDaysOld(bs, p_days_old, v_now) ==
  [i \in Ids(bs) |->
     IF /\ bs[i].status = "completed"
        /\ bs[i].completed_at # NULL
        /\ bs[i].completed_at <= v_now - Days(p_days_old)
     THEN Deleted(bs[i].origin)
     ELSE bs[i]]

cleanup_old_batches(bs, p_days_old, v_now) ==
  [i \in Ids(bs) |->
     IF /\ bs[i].status = "completed"
        /\ bs[i].completed_at # NULL
        /\ bs[i].completed_at < v_now - Days(p_days_old)
     THEN Deleted(bs[i].origin)
     ELSE bs[i]]

\* ------------------------------------------------------------------ worker
\* one dispatch of a claimed batch inside a worker invocation; batch_type
\* and metadata are the copies returned by the claim, handler is how the
\* invoked function answered, value is what processBatch returned,
\* backoffDelay the delay in ms that handleError computed
Task(w, i, b) ==
  [wid |-> w, id |-> i, batch_type |-> b.batch_type, metadata |-> b.metadata,
   pc |-> "fetch", retryCount |-> NULL, dlq_metadata |-> Meta(NULL, NULL),
   backoffDelay |-> NULL, handler |-> "none", value |-> "none"]

WorkerIds == {k.wid : k \in tasks}

\* gen_random_uuid(): an identifier that no lease in force and no running
\* worker holds
UsedWorkerIds ==
  WorkerIds
    \cup {batches[i].claimed_by :
            i \in {j \in Ids(batches) : batches[j].status = "processing"}}
    \cup UNION {batches[i].holders : i \in Ids(batches)}

gen_random_uuid ==
  CHOOSE w \in 1..(Cardinality(UsedWorkerIds) + 1) :
    /\ w \notin UsedWorkerIds
    /\ \A v \in 1..(w - 1) : v \in UsedWorkerIds

\* data of select('id', {count: 'exact', head: true}): a HEAD request has
\* no body, the count travels in the count field that the worker ignores
inProgressCount(bs) == NULL

\* (x || 0)
OrZero(x) == IF x = NULL THEN 0 ELSE x

jobsToFetchSqlDefault(bs) == 5

jobsToFetch(bs) == MAX_CONCURRENT_JOBS - OrZero(inProgressCount(bs))

\* claimAndProcessBatches up to the start of the dispatches; a tick that
\* claims nothing returns {claimed: 0} and leaves no trace
claimAndProcessBatches ==
  /\ OrZero(inProgressCount(batches)) < MAX_CONCURRENT_JOBS
  /\ \E S \in ClaimSelections(batches, now, jobsToFetch(batches)) :
       /\ S # {}
       /\ LET w == gen_random_uuid
              bs == claim_processing_batches(batches, S, w, now)
          IN /\ batches' = bs
             /\ tasks' = tasks \cup {Task(w, i, bs[i]) : i \in S}
  /\ UNCHANGED dlq
  /\ UNCHANGED api_rate_limits

\* ------------------------------------------------------ dead_letter_items
\* original_batch_id UUID NOT NULL (and original_item_id TEXT NOT NULL,
\* which every insert of the program writes or omits together with it);
\* item_type, NOT NULL as well, is written by every insert
dead_letter_items_not_null(row) == row.original_batch_id # NULL

\* an INSERT that checks nothing
InsertUnchecked(dl, row) == Append(dl, row)

\* insert(row) into dead_letter_items: the statement fails on a row that
\* violates a NOT NULL constraint, and the caller ignores the error
InsertDeadLetter(dl, row) ==
  IF dead_letter_items_not_null(row) THEN Append(dl, row) ELSE dl

\* ---------------------------------------------------------------- handlers
\* switch (batchType) of processBatch: the edge function that is invoked
functionNameWithoutFallThrough(batchType) ==
  CASE batchType = "album_discovery" -> "process-album-page"
    [] batchType = "album_page" -> "process-album-page"
    [] batchType = "track_page" -> "process-track-page"
    [] batchType = "producer_discovery" -> "identify-producers"
    [] OTHER -> batchType

functionName(batchType) ==
  CASE batchType = "album_discovery" -> "process-album-page"
    [] batchType = "album_page" -> "process-album-page"
    [] batchType = "track_discovery" -> "process-track-page"
    [] batchType = "track_page" -> "process-track-page"
    [] batchType = "producer_discovery" -> "identify-producers"
    [] OTHER -> batchType

\* the row the catch block of a handler sends to dead_letter_items: it
\* carries item_type, error_message and metadata {error} only; the other
\* functions have no source here and send no row
HandlerDeadLetterItem(fn) ==
  [item_type |-> CASE fn = "process-album-page" -> "album_page_error"
                   [] fn = "process-track-page" -> "track_page_error"
                   [] OTHER -> "",
   original_batch_id |-> NULL, retry_count |-> 0,
   metadata |-> Meta(NULL, NULL), created_at |-> now]

Offset(m) == IF m.offset = NULL THEN 0 ELSE m.offset

\* the batch process-album-page emits: the next page when the page was
\* full, the track discovery of the artist otherwise
ProcessAlbumPageChildren(m) ==
  {<<"album_page", Meta(m.artist_id, Offset(m) + 1)>> :
      x \in {y \in {1} : Offset(m) + 1 <= MaxPages}}
    \cup {<<"track_discovery", Meta(m.artist_id, NULL)>>}

\* process-track-page on a last page without tracks emits nothing
ProcessTrackPageChildren(m) == {<<"none", m>>}

HandlerChildren(batchType, m) ==
  CASE batchType \in {"album_discovery", "album_page"} ->
         ProcessAlbumPageChildren(m)
    [] OTHER -> ProcessTrackPageChildren(m)

SetTask(k, new) == (tasks \ {k}) \cup {new}

\* the handler answers 200 after its last store call, the child insert
HandlerSucceeds(k) ==
  /\ k.pc = "fetch"
  /\ \E c \in HandlerChildren(k.batch_type, k.metadata) :
       LET bs == IF c[1] = "none" THEN batches
                 ELSE InsertBatch(batches, c[1], c[2])
       IN batches' = [i \in Ids(bs) |->
                        IF i = k.id /\ i \in Ids(batches)
                        THEN NotSeq(bs[i]) ELSE bs[i]]
  /\ tasks' = SetTask(k, [k EXCEPT !.pc = "ok", !.handler = "ok"])
  /\ UNCHANGED dlq
  /\ UNCHANGED api_rate_limits

\* ------------------------------------------------------------ processBatch
\* update({status: 'completed', ...}).eq('id', batchId); return true
MarkCompletedStatusOnly(bs, k, t) ==
  [i \in Ids(bs) |->
     IF i = k.id /\ Exists(bs, i)
     THEN [bs[i] EXCEPT !.status = "completed", !.holders = {}]
     ELSE bs[i]]

MarkCompleted(bs, k, t) ==
  [i \in Ids(bs) |->
     IF i = k.id /\ Exists(bs, i)
     THEN [bs[i] EXCEPT !.status = "completed", !.completed_at = t,
                        !.items_processed = 1, !.items_total = 1,
                        !.holders = {}]
     ELSE bs[i]]

processBatchCompleted(k) ==
  /\ k.pc = "ok"
  /\ batches' = MarkCompleted(batches, k, now)
  /\ tasks' = SetTask(k, [k EXCEPT !.pc = "done", !.value = "true"])
  /\ UNCHANGED dlq
  /\ UNCHANGED api_rate_limits

\* ------------------------------------------------------------- handleError
\* error.message of the failed dispatch
ErrorMessage == <<"Function failed">>

\* retryCount < retryLimit
ShouldRetry(retryCount, retryLimit) == retryCount < retryLimit

\* 500 * Math.pow(2, retryCount - 1)
backoffDelay(retryCount) == 500 * 2 ^ (retryCount - 1)

\* the handler answers 500 after its catch block sent its row to
\* dead_letter_items; processBatch catches and handleError starts with
\* select('retry_count, metadata').eq('id', batchId).single()
handleErrorRead(k) ==
  /\ k.pc = "fetch"
  /\ dlq' = InsertDeadLetter(dlq,
               HandlerDeadLetterItem(functionName(k.batch_type)))
  /\ LET found == Exists(batches, k.id)
         retryCount == (IF found THEN batches[k.id].retry_count ELSE 0) + 1
         retryLimit == RETRY_LIMITS(k.batch_type)
     IN tasks' = SetTask(k,
          [k EXCEPT !.retryCount = retryCount,
                    !.backoffDelay = IF ShouldRetry(retryCount, retryLimit)
                                     THEN backoffDelay(retryCount) ELSE NULL,
                    !.handler = "failed",
                    !.dlq_metadata = IF found THEN batches[k.id].metadata
                                     ELSE Meta(NULL, NULL),
                    !.pc = IF ShouldRetry(retryCount, retryLimit)
                           THEN "retry" ELSE "exhausted"])
  /\ UNCHANGED batches
  /\ UNCHANGED api_rate_limits

\* update({status: 'pending', retry_count, ...}).eq('id', batchId); the
\* update is refused when it would make a second active row of the key
RetryWriteClearsLease(bs, k) ==
  IF /\ Exists(bs, k.id)
     /\ idx_batches_unique_metadata(bs, k.id, bs[k.id].batch_type,
                                    bs[k.id].metadata)
  THEN [bs EXCEPT ![k.id].status = "pending",
                  ![k.id].retry_count = k.retryCount,
                  ![k.id].error_message = ErrorMessage,
                  ![k.id].claimed_by = NULL,
                  ![k.id].claim_expires_at = NULL,
                  ![k.id].holders = {},
                  ![k.id].fails = IF bs[k.id].seq THEN @ + 1 ELSE @]
  ELSE bs

RetryWrite(bs, k) ==
  IF /\ Exists(bs, k.id)
     /\ idx_batches_unique_metadata(bs, k.id, bs[k.id].batch_type,
                                    bs[k.id].metadata)
  THEN [bs EXCEPT ![k.id].status = "pending",
                  ![k.id].retry_count = k.retryCount,
                  ![k.id].error_message = ErrorMessage,
                  ![k.id].holders = {},
                  ![k.id].fails = IF bs[k.id].seq THEN @ + 1 ELSE @]
  ELSE bs

handleErrorRetry(k) ==
  /\ k.pc = "retry"
  /\ batches' = RetryWrite(batches, k)
  /\ tasks' = SetTask(k, [k EXCEPT !.pc = "done", !.value = "false"])
  /\ UNCHANGED dlq
  /\ UNCHANGED api_rate_limits

\* update({status: 'error', completed_at, ...}).eq('id', batchId)
ErrorWrite(bs, k, t) ==
  IF Exists(bs, k.id)
  THEN [bs EXCEPT ![k.id].status = "error",
                  ![k.id].error_message = ErrorMessage,
                  ![k.id].completed_at = t,
                  ![k.id].holders = {},
                  ![k.id].fails = IF bs[k.id].seq THEN @ + 1 ELSE @]
  ELSE bs

handleErrorMarkError(k) ==
  /\ k.pc = "exhausted"
  /\ batches' = ErrorWrite(batches, k, now)
  /\ tasks' = SetTask(k, [k EXCEPT !.pc = "dlq"])
  /\ UNCHANGED dlq
  /\ UNCHANGED api_rate_limits

\* a row of dead_letter_items, created_at DEFAULT now()
DeadLetterItem(k) ==
  [item_type |-> k.batch_type, original_batch_id |-> k.id,
   retry_count |-> 0, metadata |-> k.dlq_metadata, created_at |-> now]

handleErrorDeadLetter(k) ==
  /\ k.pc = "dlq"
  /\ dlq' = InsertDeadLetter(dlq, DeadLetterItem(k))
  /\ tasks' = SetTask(k, [k EXCEPT !.pc = "done", !.value = "false"])
  /\ UNCHANGED batches
  /\ UNCHANGED api_rate_limits

\* what the invocation answers once Promise.allSettled has every result
ResponseRejectedOnly(w) ==
  LET mine == {k \in tasks : k.wid = w}
  IN [claimed |-> Cardinality(mine),
      completed |-> Cardinality({k \in mine : k.value = "true"}),
      failed |-> 0]

Response(w) ==
  LET mine == {k \in tasks : k.wid = w}
  IN [claimed |-> Cardinality(mine),
      completed |-> Cardinality({k \in mine : k.value = "true"}),
      failed |-> Cardinality({k \in mine : k.value # "true"})]

WorkerReturns(w) ==
  /\ w \in WorkerIds
  /\ \A k \in tasks : k.wid = w => k.pc = "done"
  /\ tasks' = {k \in tasks : k.wid # w}
  /\ UNCHANGED <<batches, dlq>>
  /\ UNCHANGED api_rate_limits

\* the worker invocation dies before all its dispatches settled
WorkerCrashes(w) ==
  /\ w \in WorkerIds
  /\ \E k \in tasks : k.wid = w /\ k.pc # "done"
  /\ tasks' = {k \in tasks : k.wid # w}
  /\ batches' = [i \in Ids(batches) |->
                   IF \E k \in tasks : k.wid = w /\ k.id = i /\ k.pc # "done"
                   THEN NotSeq(batches[i])
                   ELSE batches[i]]
  /\ UNCHANGED dlq
  /\ UNCHANGED api_rate_limits

\* -------------------------------------------------------- discover-artists
\* insert({batch_type: 'album_discovery', metadata: {artist_id}})
DiscoverArtists(a) ==
  /\ batches' = InsertBatch(batches, "album_discovery", Meta(a, NULL))
  /\ batches' # batches
  /\ UNCHANGED <<dlq, tasks>>
  /\ UNCHANGED api_rate_limits

\* ------------------------------------------------------------- maintenance
\* the three store calls of the maintenance function; invocations overlap
\* with each other and with the workers, so every call is a step of its own
\* rpc('reset_expired_batches', {p_expiry_minutes: 30})
MaintenanceReset ==
  /\ batches' = reset_expired_batches(batches, MAINT_EXPIRY_MINUTES, now)
  /\ batches' # batches
  /\ UNCHANGED <<dlq, tasks>>
  /\ UNCHANGED api_rate_limits

\* rpc('requeue_dead_letter_items', {p_limit: 100}); on requeueError the
\* tables are as before the call
MaintenanceRequeue ==
  /\ LET r == requeue_dead_letter_items(batches, dlq, MAINT_REQUEUE_LIMIT)
     IN /\ r.ok
        /\ batches' = r.batches
        /\ dlq' = r.dlq
        /\ dlq' # dlq
  /\ UNCHANGED tasks
  /\ UNCHANGED api_rate_limits

\* rpc('cleanup_old_batches', {p_days_old: 7})
MaintenanceCleanup ==
  /\ batches' = cleanup_old_batches(batches, MAINT_CLEANUP_DAYS, now)
  /\ batches' # batches
  /\ UNCHANGED <<dlq, tasks>>
  /\ UNCHANGED api_rate_limits

\* -------------------------------------------------------------------- time
\* a timestamp after d units have passed: it is kept exactly while it is
\* younger than keep, as keep while it is younger than floor, as floor after
Aged(ts, d, keep, floor) ==
  IF ts = NULL THEN NULL
  ELSE LET x == ts - d
       IN IF x <= floor THEN floor ELSE IF x < keep THEN keep ELSE x

\* claim_expires_at is compared with now() and, on a processing row, with
\* now() - 30 minutes
LeaseFloor(status) ==
  IF status = "processing"
  THEN 0 - (Minutes(MAINT_EXPIRY_MINUTES) + 1)
  ELSE -1

\* completed_at is compared with now() - 7 days
RetentionFloor == 0 - (Days(MAINT_CLEANUP_DAYS) + 1)

\* started_at is compared with now() - 30 minutes
StalledFloor == 0 - (Minutes(MAINT_EXPIRY_MINUTES) + 1)

\* created_at of a dead-letter row is compared with now() - 24 hours
DayFloor == 0 - (Days(1) + 1)

Elapse(bs, d) ==
  [i \in Ids(bs) |->
     [bs[i] EXCEPT
        !.claim_expires_at = Aged(@, d, -1, LeaseFloor(bs[i].status)),
        !.started_at = Aged(@, d, 0, StalledFloor),
        !.completed_at = Aged(@, d, 0, RetentionFloor)]]

ElapseDeadLetters(dl, d) ==
  [i \in DOMAIN dl |->
     [dl[i] EXCEPT !.created_at = Aged(@, d, 0, DayFloor)]]

\* reset_at is compared with now
Passed == -1

ElapseRateLimit(rateLimit, d) ==
  IF rateLimit.present
  THEN [rateLimit EXCEPT !.reset_at.iso = Aged(@, d, Passed, Passed)]
  ELSE rateLimit

\* the intervals after which the store is looked at again: a lease has run
\* out, a lease has become resettable, the retention has passed
LeaseSteps ==
  {Minutes(5) + 1,
   Minutes(5) + Minutes(MAINT_EXPIRY_MINUTES) + 1}

TimeSteps == LeaseSteps \cup {Days(MAINT_CLEANUP_DAYS) + 1}

AdvanceTime(d) ==
  /\ batches' = Elapse(batches, d)
  /\ dlq' = ElapseDeadLetters(dlq, d)
  /\ api_rate_limits' = ElapseRateLimit(api_rate_limits, d)
  /\ <<batches', dlq', api_rate_limits'>> # <<batches, dlq, api_rate_limits>>
  /\ UNCHANGED tasks

\* ----------------------------------------------------------- specifications
\* the number of batches ever claimed
Started == Cardinality({i \in Ids(batches) : batches[i].started_at # NULL})

\* an empty store; one worker invocation at a time
Init ==
  /\ batches = <<>>
  /\ dlq = <<>>
  /\ tasks = {}
  /\ api_rate_limits = NoRateLimit

Next ==
  \/ \E d \in TimeSteps : AdvanceTime(d)
  \/ \E a \in 1..MaxArtists :
       DiscoverArtists(a) /\ Len(batches') <= MaxBatches
  \/ /\ WorkerIds = {}
     /\ claimAndProcessBatches
     /\ Cardinality(tasks') <= MaxTasks
  \/ \E k \in tasks : HandlerSucceeds(k) /\ Len(batches') <= MaxBatches
  \/ \E k \in tasks : processBatchCompleted(k)
  \/ \E k \in tasks : handleErrorRead(k)
  \/ \E k \in tasks : handleErrorRetry(k)
  \/ \E k \in tasks : handleErrorMarkError(k)
  \/ \E k \in tasks : handleErrorDeadLetter(k) /\ Len(dlq') <= MaxDeadLetters
  \/ \E w \in WorkerIds : WorkerReturns(w)
  \/ \E w \in WorkerIds : WorkerCrashes(w)
  \/ MaintenanceReset
  \/ MaintenanceRequeue /\ Len(batches') <= MaxBatches
  \/ MaintenanceCleanup

Spec == Init /\ [][Next]_vars

\* one pending batch of discover-artists; worker invocations overlap and
\* may outlive their lease
InitRace ==
  /\ batches = InsertBatch(<<>>, "album_discovery", Meta(1, NULL))
  /\ dlq = <<>>
  /\ tasks = {}
  /\ api_rate_limits = NoRateLimit

NextRace ==
  \/ \E d \in LeaseSteps : AdvanceTime(d)
  \/ /\ Cardinality(WorkerIds) < RaceWorkers
     /\ claimAndProcessBatches
     /\ Cardinality(tasks') <= RaceTasks
  \/ \E k \in tasks : HandlerSucceeds(k) /\ Len(batches') <= RaceBatches
  \/ \E k \in tasks : processBatchCompleted(k)
  \/ \E k \in tasks : handleErrorRead(k)
  \/ \E k \in tasks : handleErrorRetry(k)
  \/ \E k \in tasks : handleErrorMarkError(k)
  \/ \E k \in tasks : handleErrorDeadLetter(k) /\ Len(dlq') <= MaxDeadLetters
  \/ \E w \in WorkerIds : WorkerReturns(w)
  \/ MaintenanceReset

SpecRace == InitRace /\ [][NextRace]_vars

\* scenario S3: ten pending batches of discover-artists and the first
\* worker ticks over them
RECURSIVE Seeded(_)
Seeded(n) ==
  IF n = 0 THEN <<>>
  ELSE InsertBatch(Seeded(n - 1), "album_discovery", Meta(n, NULL))

InitS3 ==
  /\ batches = Seeded(S3Batches)
  /\ dlq = <<>>
  /\ tasks = {}
  /\ api_rate_limits = NoRateLimit

NextS3 ==
  \/ /\ Started < S3Started
     /\ claimAndProcessBatches
  \/ \E k \in tasks :
       HandlerSucceeds(k) /\ Len(batches') <= S3Batches + S3Children
  \/ \E k \in tasks : processBatchCompleted(k)
  \/ \E k \in tasks : handleErrorRead(k)
  \/ \E k \in tasks : handleErrorRetry(k)
  \/ \E w \in WorkerIds : WorkerReturns(w)

SpecS3 == InitS3 /\ [][NextS3]_vars

\* a batch of discover-artists that failed RETRY_LIMITS times in a row and
\* was dead-lettered; the maintenance function requeues, one worker
\* invocation at a time dispatches
DeadLettered ==
  [NewBatch("album_discovery", Meta(1, NULL), 0, 1, 0) EXCEPT
     !.status = "error", !.retry_count = 2, !.claimed_by = 1,
     !.claim_expires_at = Minutes(5), !.started_at = now,
     !.completed_at = now, !.error_message = ErrorMessage, !.fails = 3]

InitRequeue ==
  /\ batches = <<DeadLettered>>
  /\ dlq = <<[item_type |-> "album_discovery", original_batch_id |-> 1,
              retry_count |-> 0, metadata |-> Meta(1, NULL),
              created_at |-> now]>>
  /\ tasks = {}
  /\ api_rate_limits = NoRateLimit

NextRequeue ==
  \/ MaintenanceRequeue /\ Len(batches') <= RequeueBatches
  \/ /\ WorkerIds = {}
     /\ claimAndProcessBatches
  \/ \E k \in tasks : HandlerSucceeds(k) /\ Len(batches') <= RequeueBatches
  \/ \E k \in tasks : processBatchCompleted(k)
  \/ \E k \in tasks : handleErrorRead(k)
  \/ \E k \in tasks : handleErrorRetry(k)
  \/ \E k \in tasks : handleErrorMarkError(k)
  \/ \E k \in tasks : handleErrorDeadLetter(k) /\ Len(dlq') <= MaxDeadLetters
  \/ \E w \in WorkerIds : WorkerReturns(w)

SpecRequeue == InitRequeue /\ [][NextRequeue]_vars

\* one batch of discover-artists and its children; worker ticks (one
\* invocation at a time) and maintenance ticks recur, time advances, every
\* handler answers and every store call returns; a worker invocation may
\* die at any point
NextLive ==
  \/ \E d \in LeaseSteps : AdvanceTime(d)
  \/ /\ WorkerIds = {}
     /\ claimAndProcessBatches
  \/ \E k \in tasks : HandlerSucceeds(k) /\ Len(batches') <= LiveBatches
  \/ \E k \in tasks : processBatchCompleted(k)
  \/ \E k \in tasks : handleErrorRead(k)
  \/ \E k \in tasks : handleErrorRetry(k)
  \/ \E k \in tasks : handleErrorMarkError(k)
  \/ \E k \in tasks : handleErrorDeadLetter(k)
  \/ \E w \in WorkerIds : WorkerReturns(w)
  \/ \E w \in WorkerIds : WorkerCrashes(w)
  \/ MaintenanceReset

Recurring ==
  /\ WF_vars(\E d \in LeaseSteps : AdvanceTime(d))
  /\ WF_vars(WorkerIds = {} /\ claimAndProcessBatches)
  /\ WF_vars(\E k \in tasks :
               \/ HandlerSucceeds(k) /\ Len(batches') <= LiveBatches
               \/ handleErrorRead(k))
  /\ WF_vars(\E k \in tasks : processBatchCompleted(k))
  /\ WF_vars(\E k \in tasks : handleErrorRetry(k))
  /\ WF_vars(\E k \in tasks : handleErrorMarkError(k))
  /\ WF_vars(\E k \in tasks : handleErrorDeadLetter(k))
  /\ WF_vars(\E w \in WorkerIds : WorkerReturns(w))
  /\ WF_vars(MaintenanceReset)

SpecLive == InitRace /\ [][NextLive]_vars /\ Recurring

\* units of work whose handler fails at every dispatch: worker ticks (one
\* invocation at a time), the reset and the requeue of the maintenance
\* function recur and time advances
InitPoison ==
  /\ batches = Seeded(PoisonKeys)
  /\ dlq = <<>>
  /\ tasks = {}
  /\ api_rate_limits = NoRateLimit

NextPoison ==
  \/ \E d \in LeaseSteps : AdvanceTime(d)
  \/ /\ WorkerIds = {}
     /\ claimAndProcessBatches
  \/ \E k \in tasks : handleErrorRead(k)
  \/ \E k \in tasks : handleErrorRetry(k)
  \/ \E k \in tasks : handleErrorMarkError(k)
  \/ \E k \in tasks : handleErrorDeadLetter(k)
  \/ \E w \in WorkerIds : WorkerReturns(w)
  \/ MaintenanceReset
  \/ MaintenanceRequeue

RecurringPoison ==
  /\ WF_vars(\E d \in LeaseSteps : AdvanceTime(d))
  /\ WF_vars(WorkerIds = {} /\ claimAndProcessBatches)
  /\ WF_vars(\E k \in tasks : handleErrorRead(k))
  /\ WF_vars(\E k \in tasks : handleErrorRetry(k))
  /\ WF_vars(\E k \in tasks : handleErrorMarkError(k))
  /\ WF_vars(\E k \in tasks : handleErrorDeadLetter(k))
  /\ WF_vars(\E w \in WorkerIds : WorkerReturns(w))
  /\ WF_vars(MaintenanceReset)
  /\ WF_vars(MaintenanceRequeue)

SpecPoison == InitPoison /\ [][NextPoison]_vars /\ RecurringPoison

\* ---------------------------------------------------------------- scheduler
\* a string is the sequence of its characters
IsDigit(c) == c \in {"0", "1", "2", "3", "4", "5", "6", "7", "8", "9"}

DigitValue(c) ==
  CHOOSE d \in 0..9 :
    <<"0", "1", "2", "3", "4", "5", "6", "7", "8", "9">>[d + 1] = c

\* String.prototype.startsWith
StartsWith(str, prefix) ==
  /\ Len(prefix) <= Len(str)
  /\ SubSeq(str, 1, Len(prefix)) = prefix

\* the position of the first c in str, 0 when there is none
IndexOf(str, c) ==
  IF \E i \in 1..Len(str) : str[i] = c
  THEN CHOOSE i \in 1..Len(str) :
         str[i] = c /\ \A j \in 1..(i - 1) : str[j] # c
  ELSE 0

\* str.split(c)[0]
SplitFirst(str, c) ==
  IF IndexOf(str, c) = 0 THEN str ELSE SubSeq(str, 1, IndexOf(str, c) - 1)

\* str.split(c)[1], for a str that contains c
SplitSecond(str, c) ==
  SplitFirst(SubSeq(str, IndexOf(str, c) + 1, Len(str)), c)

\* the value of a string of digits
RECURSIVE DecimalValue(_)
DecimalValue(str) ==
  IF str = <<>> THEN 0
  ELSE 10 * DecimalValue(SubSeq(str, 1, Len(str) - 1))
         + DigitValue(str[Len(str)])

\* parseInt: the value of the leading digits, NaN (NULL) when there are
\* none
parseInt(str) ==
  LET n == IF \E i \in 1..Len(str) : ~IsDigit(str[i])
           THEN (CHOOSE i \in 1..Len(str) :
                   ~IsDigit(str[i]) /\ \A j \in 1..(i - 1) : IsDigit(str[j]))
                  - 1
           ELSE Len(str)
  IN IF n = 0 THEN NULL ELSE DecimalValue(SubSeq(str, 1, n))

\* /^\d+\s/.test(str)
DigitsThenSpace(str) ==
  \E i \in 2..Len(str) :
    /\ str[i] = " "
    /\ \A j \in 1..(i - 1) : IsDigit(str[j])

\* x % NaN and x % 0 are NaN, and NaN === 0 is false
shouldRunSchedule(cronPattern, currentMinute) ==
  IF cronPattern = <<"*", " ", "*", " ", "*", " ", "*", " ", "*">>
  THEN TRUE
  ELSE IF StartsWith(cronPattern, <<"*", "/">>)
  THEN LET interval ==
             parseInt(SplitFirst(SplitSecond(cronPattern, "/"), " "))
       IN /\ interval # NULL /\ interval # 0
          /\ currentMinute % interval = 0
  ELSE IF DigitsThenSpace(cronPattern)
  THEN LET minute == parseInt(SplitFirst(cronPattern, " "))
       IN currentMinute = minute
  ELSE FALSE

\* the decimal digits of n
RECURSIVE Digits(_)
Digits(n) ==
  IF n < 10
  THEN <<<<"0", "1", "2", "3", "4", "5", "6", "7", "8", "9">>[n + 1]>>
  ELSE Digits(n \div 10) \o Digits(n % 10)

\* the fields of a pattern, separated by one space
RECURSIVE Join(_)
Join(fields) ==
  IF Len(fields) = 1 THEN fields[1]
  ELSE fields[1] \o <<" ">> \o Join(Tail(fields))

\* the patterns the scheduler is given: the table SCHEDULES of the code,
\* the other intervals and minutes, and malformed or unsupported patterns,
\* each alone and followed by four fields of hour, day, month and weekday
MinuteFields ==
  {<<"*">>, <<"x", "y", "z">>, <<"*", "/", "x">>, <<"5", "-", "9">>,
   <<"5", "x">>}
    \cup {<<"*", "/">> \o Digits(n) : n \in {0, 2, 7, 15, 30}}
    \cup {Digits(n) : n \in {0, 5, 30, 59}}

OtherFields == [1..4 -> {<<"*">>, <<"3">>}]

CronPatterns ==
  MinuteFields \cup {Join(<<f>> \o r) : f \in MinuteFields, r \in OtherFields}

\* one evaluation of a pattern of the table at the minute of the tick
runScheduler(cronPattern, currentMinute) ==
  /\ tasks = {}
  /\ tasks' = {[fn |-> "scheduler", cronPattern |-> cronPattern,
                currentMinute |-> currentMinute,
                fires |-> shouldRunSchedule(cronPattern, currentMinute)]}
  /\ UNCHANGED <<batches, dlq>>
  /\ UNCHANGED api_rate_limits

SchedulerReturns ==
  /\ \E k \in tasks : k.fn = "scheduler"
  /\ tasks' = {}
  /\ UNCHANGED <<batches, dlq>>
  /\ UNCHANGED api_rate_limits

NextScheduler ==
  \/ \E p \in CronPatterns, m \in 0..MaxMinute : runScheduler(p, m)
  \/ SchedulerReturns

SpecScheduler == Init /\ [][NextScheduler]_vars

\* --------------------------------------------------------- scheduler tick
\* const SCHEDULES, in the order Object.entries walks it
SCHEDULES ==
  <<[function |-> "discover-artists",
     cronPattern |-> Join(<<<<"0">>, <<"*">>, <<"*">>, <<"*">>, <<"*">>>>)],
    [function |-> "maintenance",
     cronPattern |->
       Join(<<<<"*", "/", "1", "5">>, <<"*">>, <<"*">>, <<"*">>, <<"*">>>>)],
    [function |-> "worker",
     cronPattern |->
       Join(<<<<"*", "/", "2">>, <<"*">>, <<"*">>, <<"*">>, <<"*">>>>)],
    [function |-> "monitor",
     cronPattern |->
       Join(<<<<"*", "/", "3", "0">>, <<"*">>, <<"*">>, <<"*">>, <<"*">>>>)]>>

\* one invocation of the scheduler: startMinute is the minute of the hour
\* at which it starts, currentMinute what getCurrentCronMinute() returns
\* now, entry the entry of SCHEDULES the loop of runScheduler is at,
\* results the list it returns; fetches and answers are the requests sent
\* and whether each was answered with response.ok
SchedulerTick(minute) ==
  [fn |-> "tick", startMinute |-> minute, currentMinute |-> minute,
   entry |-> 1, results |-> <<>>, fetches |-> <<>>, answers |-> <<>>]

\* new Date().getMinutes() one minute later
NextMinute(minute) == (minute + 1) % 60

schedulerStarts(minute) ==
  /\ tasks = {}
  /\ tasks' = {SchedulerTick(minute)}
  /\ UNCHANGED <<batches, dlq>>
  /\ UNCHANGED api_rate_limits

\* if (shouldRunSchedule(cronPattern)) is false: the next entry
scheduleNotDue(k) ==
  /\ k.fn = "tick" /\ k.entry <= Len(SCHEDULES)
  /\ ~shouldRunSchedule(SCHEDULES[k.entry].cronPattern, k.currentMinute)
  /\ tasks' = SetTask(k, [k EXCEPT !.entry = @ + 1])
  /\ UNCHANGED <<batches, dlq>>
  /\ UNCHANGED api_rate_limits

\* await invokeFunction(functionName); results.push(result).  ok: the
\* fetch was answered with response.ok; otherwise it threw or the answer
\* was not ok, and the catch block returns the error result.  The fetch
\* is awaited until the invoked function has answered; late: the minute
\* of the hour has changed by then
invokeFunction(k, ok, late) ==
  /\ k.fn = "tick" /\ k.entry <= Len(SCHEDULES)
  /\ shouldRunSchedule(SCHEDULES[k.entry].cronPattern, k.currentMinute)
  /\ LET f == SCHEDULES[k.entry].function
     IN tasks' = SetTask(k,
          [k EXCEPT !.fetches = Append(@, f),
                    !.answers = Append(@, ok),
                    !.results =
                       Append(@, [function |-> f,
                                  status |-> IF ok THEN "invoked"
                                             ELSE "error"]),
                    !.currentMinute = IF late THEN NextMinute(@) ELSE @,
                    !.entry = @ + 1])
  /\ UNCHANGED <<batches, dlq>>
  /\ UNCHANGED api_rate_limits

\* new Response(JSON.stringify({timestamp, minute, results}))
schedulerResponds(k) ==
  /\ k.fn = "tick" /\ k.entry > Len(SCHEDULES)
  /\ tasks' = tasks \ {k}
  /\ UNCHANGED <<batches, dlq>>
  /\ UNCHANGED api_rate_limits

NextTick ==
  \/ \E m \in 0..MaxMinute : schedulerStarts(m)
  \/ \E k \in tasks : scheduleNotDue(k)
  \/ \E k \in tasks, ok, late \in BOOLEAN : invokeFunction(k, ok, late)
  \/ \E k \in tasks : schedulerResponds(k)

SpecTick == Init /\ [][NextTick]_vars

\* ------------------------------------------------------------------ monitor
ALERT_THRESHOLDS ==
  [dead_letter_items |-> 10, error_batches |-> 20, stalled_batches |-> 5,
   processing_time_minutes |-> 30]

\* data of select('*', {count: 'exact', head: true}) on dead_letter_items
\* and on processing_batches: a HEAD request has no body
deadLetterCount(dl) == NULL

errorBatchesCount(bs) == NULL

\* select('*').eq('status', 'processing').lt('started_at', stalledThreshold)
stalledBatches(bs) ==
  {i \in Ids(bs) :
     /\ bs[i].status = "processing"
     /\ bs[i].started_at # NULL
     /\ bs[i].started_at
          < now - Minutes(ALERT_THRESHOLDS.processing_time_minutes)}

CriticalFromThreshold(stalledCount) ==
  stalledCount >= ALERT_THRESHOLDS.stalled_batches

\* stalledCount > ALERT_THRESHOLDS.stalled_batches
Critical(stalledCount) == stalledCount > ALERT_THRESHOLDS.stalled_batches

Alert(level, metric) == [level |-> level, metric |-> metric]

MonitorTask ==
  [fn |-> "monitor", pc |-> "dead_letter_items",
   metrics |-> [dead_letter_items_24h |-> NULL, error_batches_24h |-> NULL,
                stalled_batches |-> NULL],
   alerts |-> {}, actions |-> <<>>, rpc |-> <<>>]

\* checkSystemHealth, one step per store call; the reads of queue depths
\* and rate limits raise warnings only and are left out
checkDeadLetterItems ==
  /\ tasks = {}
  /\ LET count == OrZero(deadLetterCount(dlq))
     IN tasks' =
          {[MonitorTask EXCEPT
              !.pc = "error_batches",
              !.metrics.dead_letter_items_24h = count,
              !.alerts =
                IF count > ALERT_THRESHOLDS.dead_letter_items
                THEN {Alert("warning", "dead_letter_items_24h")}
                ELSE {}]}
  /\ UNCHANGED <<batches, dlq>>
  /\ UNCHANGED api_rate_limits

checkErrorBatches(k) ==
  /\ k.fn = "monitor" /\ k.pc = "error_batches"
  /\ LET count == OrZero(errorBatchesCount(batches))
     IN tasks' =
          SetTask(k, [k EXCEPT
            !.pc = "stalled_batches",
            !.metrics.error_batches_24h = count,
            !.alerts =
              IF count > ALERT_THRESHOLDS.error_batches
              THEN @ \cup {Alert("warning", "error_batches_24h")}
              ELSE @])
  /\ UNCHANGED <<batches, dlq>>
  /\ UNCHANGED api_rate_limits

checkStalledBatches(k) ==
  /\ k.fn = "monitor" /\ k.pc = "stalled_batches"
  /\ LET stalledCount == Cardinality(stalledBatches(batches))
     IN tasks' =
          SetTask(k, [k EXCEPT
            !.pc = "remediate",
            !.metrics.stalled_batches = stalledCount,
            !.alerts =
              IF Critical(stalledCount)
              THEN @ \cup {Alert("critical", "stalled_batches")}
              ELSE @])
  /\ UNCHANGED <<batches, dlq>>
  /\ UNCHANGED api_rate_limits

\* rpc('reset_expired_batches', {p_expiry_minutes: 30}) when a critical
\* alert is present and stalledCount > 0; rpc keeps what the call returned
remediate(k) ==
  /\ k.fn = "monitor" /\ k.pc = "remediate"
  /\ LET stalledCount == k.metrics.stalled_batches
         p == ALERT_THRESHOLDS.processing_time_minutes
     IN IF /\ \E alert \in k.alerts : alert.level = "critical"
           /\ stalledCount > 0
        THEN /\ batches' = reset_expired_batches(batches, p, now)
             /\ tasks' =
                  SetTask(k, [k EXCEPT
                    !.pc = "done",
                    !.actions = Append(@, [action |-> "reset_stalled_batches",
                                           count |-> stalledCount]),
                    !.rpc = Append(@, [fn |-> "reset_expired_batches",
                                       returned |-> reset_expired_v_count(
                                                      batches, p, now)])])
        ELSE /\ tasks' = SetTask(k, [k EXCEPT !.pc = "done"])
             /\ UNCHANGED batches
  /\ UNCHANGED dlq
  /\ UNCHANGED api_rate_limits

MonitorReturns(k) ==
  /\ k.fn = "monitor" /\ k.pc = "done"
  /\ tasks' = tasks \ {k}
  /\ UNCHANGED <<batches, dlq>>
  /\ UNCHANGED api_rate_limits

\* the tables the monitor looks at: batches in processing that were
\* claimed 40 minutes ago by a worker that died ("dead": stalled, lease
\* run out 35 minutes ago), claimed 35 minutes ago ("slow": stalled, lease
\* run out 30 minutes ago), claimed 40 minutes ago, retried and claimed
\* again now ("retried") or claimed now for the first time ("fresh"),
\* followed by batches in error with their dead-letter rows, all of them
\* written now or all of them written more than 24 hours ago
LeaseStates == <<"dead", "slow", "retried", "fresh">>

ProcessingRow(a, leaseState) ==
  LET b == claim_processing_batches(
             <<NewBatch("album_discovery", Meta(a, NULL), 0, a, 0)>>,
             {1}, a, now)[1]
  IN CASE leaseState = "dead" ->
            [b EXCEPT !.started_at = now - Minutes(40),
                      !.claim_expires_at = now - Minutes(35),
                      !.seq = FALSE]
       [] leaseState = "slow" ->
            [b EXCEPT !.started_at = now - Minutes(35),
                      !.claim_expires_at = now - Minutes(30)]
       [] leaseState = "retried" ->
            [b EXCEPT !.started_at = now - Minutes(40),
                      !.retry_count = 1, !.error_message = ErrorMessage,
                      !.fails = 1]
       [] OTHER -> b

ErrorRow(a, at) ==
  [DeadLettered EXCEPT !.metadata = Meta(a, NULL), !.created_at = a,
                       !.claimed_by = a,
                       !.claim_expires_at = at + Minutes(5),
                       !.started_at = at, !.completed_at = at]

DeadLetterRow(a, at) ==
  [item_type |-> "album_discovery", original_batch_id |-> a,
   retry_count |-> 0, metadata |-> Meta(a, NULL), created_at |-> at]

\* how many batches are in each lease state
LeaseCounts ==
  {c \in [1..4 -> 0..MonitorBatches] :
     c[1] + c[2] + c[3] + c[4] <= MonitorBatches}

\* the batches in the first j lease states
RECURSIVE UpTo(_, _)
UpTo(c, j) == IF j = 0 THEN 0 ELSE UpTo(c, j - 1) + c[j]

LeaseStateAt(c, i) ==
  LET j == CHOOSE h \in 1..4 : UpTo(c, h - 1) < i /\ i <= UpTo(c, h)
  IN LeaseStates[j]

\* the numbers of dead-lettered batches: none, at and above the threshold
\* of dead letters, above the threshold of error batches
ErrorCounts ==
  {0, ALERT_THRESHOLDS.dead_letter_items,
   ALERT_THRESHOLDS.dead_letter_items + 1,
   ALERT_THRESHOLDS.error_batches + 1}

InitMonitor ==
  \E c \in LeaseCounts, e \in ErrorCounts,
     at \in {now, now - (Days(1) + 1)} :
    LET n == c[1] + c[2] + c[3] + c[4]
    IN /\ e = 0 => at = now
       /\ batches = [i \in 1..(n + e) |->
                       IF i <= n THEN ProcessingRow(i, LeaseStateAt(c, i))
                       ELSE ErrorRow(i, at)]
       /\ dlq = [d \in 1..e |-> DeadLetterRow(n + d, at)]
       /\ tasks = {}
       /\ api_rate_limits = NoRateLimit

\* a monitor tick; the maintenance function may run beside it
NextMonitor ==
  \/ checkDeadLetterItems
  \/ \E k \in tasks : checkErrorBatches(k)
  \/ \E k \in tasks : checkStalledBatches(k)
  \/ \E k \in tasks : remediate(k)
  \/ \E k \in tasks : MonitorReturns(k)
  \/ MaintenanceReset

SpecMonitor == InitMonitor /\ [][NextMonitor]_vars

\* ---------------------------------------------------------- rate-limit gate
\* checkRateLimit up to the read of the row
checkRateLimit(rateLimit) ==
  /\ tasks = {}
  /\ tasks' = {[fn |-> "gate", pc |-> "read", rateLimit |-> rateLimit,
                waitTime |-> NULL, value |-> "none"]}
  /\ UNCHANGED <<batches, dlq>>
  /\ UNCHANGED api_rate_limits

\* the rest of checkRateLimit; waitTime is the time it slept
checkRateLimitReturns(k) ==
  /\ k.fn = "gate" /\ k.pc = "read"
  /\ tasks' =
       SetTask(k,
         IF ~k.rateLimit.present
         THEN [k EXCEPT !.pc = "done", !.value = "true"]
         ELSE IF /\ k.rateLimit.requests_remaining <= 0
                 /\ GreaterThan(k.rateLimit.reset_at, JsDate(now))
         THEN [k EXCEPT !.pc = "done", !.value = "true",
                        !.waitTime = getTime(k.rateLimit.reset_at) - now]
         ELSE [k EXCEPT !.pc = "done",
                        !.value = IF k.rateLimit.requests_remaining > 0
                                  THEN "true" ELSE "false"])
  /\ UNCHANGED <<batches, dlq>>
  /\ UNCHANGED api_rate_limits

GateCallerContinues(k) ==
  /\ k.fn = "gate" /\ k.pc = "done"
  /\ tasks' = tasks \ {k}
  /\ UNCHANGED <<batches, dlq>>
  /\ UNCHANGED api_rate_limits

NextGate ==
  \/ \E rateLimit \in RateLimits : checkRateLimit(rateLimit)
  \/ \E k \in tasks : checkRateLimitReturns(k)
  \/ \E k \in tasks : GateCallerContinues(k)

SpecGate == Init /\ [][NextGate]_vars

\* the use of the gate by a handler (process-album-page and the others):
\* the check, the call of the API when the check admits it, and the update
\* of the row from the headers of the response
\* response.headers.get(name) || '0'; an absent header is the empty text
HeaderOrZero(header) == IF header = <<>> THEN <<"0">> ELSE header

\* new Date(seconds * 1000): the header counts the seconds from 1970, and
\* the seconds 0 of an absent header are long past; the time an API
\* announces is counted here from now
ResetDate(seconds) == IF seconds = 0 THEN Passed ELSE now + seconds

\* the headers of a response: x-ratelimit-remaining absent or a count,
\* x-ratelimit-reset absent or a time ahead
RemainingHeaders == {<<>>} \cup {Digits(n) : n \in 0..MaxRemaining}

ResetHeaders == {<<>>} \cup {Digits(t) : t \in 1..MaxResetAt}

\* throw new Error('Rate limit exceeded')
rateLimitExceeded(k) ==
  /\ k.fn = "gate" /\ k.pc = "done" /\ k.value = "false"
  /\ tasks' = tasks \ {k}
  /\ UNCHANGED <<batches, dlq, api_rate_limits>>

\* the fetch and updateRateLimit(remaining, limit, resetAt):
\* track_api_rate_limit writes the row of the (api, endpoint)
updateRateLimit(k, remainingHeader, resetHeader) ==
  /\ k.fn = "gate" /\ k.pc = "done" /\ k.value = "true"
  /\ LET remaining == parseInt(HeaderOrZero(remainingHeader))
         resetAt == ResetDate(parseInt(HeaderOrZero(resetHeader)))
     IN api_rate_limits' = RateLimit(remaining, resetAt)
  /\ tasks' = tasks \ {k}
  /\ UNCHANGED <<batches, dlq>>

NextHandlerGate ==
  \/ \E d \in LeaseSteps : AdvanceTime(d)
  \/ checkRateLimit(api_rate_limits)
  \/ \E k \in tasks : checkRateLimitReturns(k)
  \/ \E k \in tasks : rateLimitExceeded(k)
  \/ \E k \in tasks, remainingHeader \in RemainingHeaders,
        resetHeader \in ResetHeaders :
       updateRateLimit(k, remainingHeader, resetHeader)

\* the handlers are invoked again and again and every call returns
RecurringHandlerGate ==
  /\ WF_vars(\E d \in LeaseSteps : AdvanceTime(d))
  /\ WF_vars(checkRateLimit(api_rate_limits))
  /\ WF_vars(\E k \in tasks : checkRateLimitReturns(k))
  /\ WF_vars(\E k \in tasks : rateLimitExceeded(k))
  /\ WF_vars(\E k \in tasks, remainingHeader \in RemainingHeaders,
                resetHeader \in ResetHeaders :
               updateRateLimit(k, remainingHeader, resetHeader))

SpecHandlerGate ==
  Init /\ [][NextHandlerGate]_vars /\ RecurringHandlerGate

\* ------------------------------------------------------- the claim function
\* rpc('claim_processing_batches', {p_limit}) on its own: what the
\* function does to the table, whoever calls it
rpcClaimProcessingBatches(p_limit) ==
  /\ \E S \in ClaimSelections(batches, now, p_limit) :
       /\ S # {}
       /\ batches' = claim_processing_batches(batches, S, gen_random_uuid, now)
  /\ UNCHANGED <<dlq, tasks, api_rate_limits>>

\* the tables a claim finds: every row is "fresh" (never claimed),
\* "retried" or "retried twice" (returned to pending by the retry policy
\* 10 minutes ago), "waiting" (returned to pending just now, its lease is
\* in force) or "processing"
ClaimKinds == {"fresh", "retried", "retried twice", "waiting", "processing"}

RetriedRow(a, n, d) ==
  Elapse(RetryWrite(<<ProcessingRow(a, "fresh")>>,
                    [id |-> 1, retryCount |-> n]), d)[1]

ClaimRow(a, kind) ==
  CASE kind = "fresh" -> NewBatch("album_discovery", Meta(a, NULL), 0, a, 0)
    [] kind = "retried" -> RetriedRow(a, 1, Minutes(10))
    [] kind = "retried twice" -> RetriedRow(a, 2, Minutes(10))
    [] kind = "waiting" -> RetriedRow(a, 1, 0)
    [] OTHER -> ProcessingRow(a, "fresh")

InitClaim ==
  \E kinds \in [1..ClaimRows -> ClaimKinds] :
    /\ batches = [a \in 1..ClaimRows |-> ClaimRow(a, kinds[a])]
    /\ dlq = <<>>
    /\ tasks = {}
    /\ api_rate_limits = NoRateLimit

NextClaim ==
  \/ \E d \in LeaseSteps : AdvanceTime(d)
  \/ \E p_limit \in 1..MaxLimit : rpcClaimProcessingBatches(p_limit)
  \/ MaintenanceReset

SpecClaim == InitClaim /\ [][NextClaim]_vars

\* -------------------------------------------------- maintenance invocation
\* one invocation of the maintenance function: before is the store at its
\* start, calls is the list of the rpc calls it made with what each returned
MaintenanceTask(bs, dl) ==
  [fn |-> "maintenance", pc |-> "reset_expired_batches",
   before |-> [batches |-> bs, dlq |-> dl], calls |-> <<>>, status |-> NULL]

MaintenanceCalls ==
  <<"reset_expired_batches", "requeue_dead_letter_items",
    "cleanup_old_batches">>

\* where the function goes on after a call answered
AfterCallIgnoringError(fn, error) ==
  CASE fn = "reset_expired_batches" -> "requeue_dead_letter_items"
    [] fn = "requeue_dead_letter_items" -> "cleanup_old_batches"
    [] OTHER -> "respond"

\* if (error) throw error: the catch block is next
AfterCall(fn, error) ==
  IF error THEN "catch"
  ELSE CASE fn = "reset_expired_batches" -> "requeue_dead_letter_items"
         [] fn = "requeue_dead_letter_items" -> "cleanup_old_batches"
         [] OTHER -> "respond"

Called(k, error, data) ==
  [k EXCEPT !.calls = Append(@, [fn |-> k.pc, error |-> error,
                                 data |-> data]),
            !.pc = AfterCall(k.pc, error)]

maintenanceStarted ==
  /\ tasks = {}
  /\ tasks' = {MaintenanceTask(batches, dlq)}
  /\ UNCHANGED <<batches, dlq>>
  /\ UNCHANGED api_rate_limits

\* rpc('reset_expired_batches', {p_expiry_minutes: 30}); failure: the call
\* does not reach the database or is cancelled, nothing is committed
rpcResetExpiredBatches(k, failure) ==
  /\ k.fn = "maintenance" /\ k.pc = "reset_expired_batches"
  /\ batches' = IF failure THEN batches
                ELSE reset_expired_batches(batches, MAINT_EXPIRY_MINUTES, now)
  /\ tasks' = SetTask(k, Called(k, failure,
                 IF failure THEN NULL
                 ELSE reset_expired_v_count(batches, MAINT_EXPIRY_MINUTES,
                                            now)))
  /\ UNCHANGED dlq
  /\ UNCHANGED api_rate_limits

\* rpc('requeue_dead_letter_items', {p_limit: 100}): requeueError is set
\* also when an INSERT of the function raised unique_violation
rpcRequeueDeadLetterItems(k, failure) ==
  /\ k.fn = "maintenance" /\ k.pc = "requeue_dead_letter_items"
  /\ LET r == requeue_dead_letter_items(batches, dlq, MAINT_REQUEUE_LIMIT)
         requeueError == failure \/ ~r.ok
     IN /\ batches' = IF requeueError THEN batches ELSE r.batches
        /\ dlq' = IF requeueError THEN dlq ELSE r.dlq
        /\ tasks' = SetTask(k, Called(k, requeueError,
                       IF requeueError THEN NULL
                       ELSE Len(r.batches) - Len(batches)))
  /\ UNCHANGED api_rate_limits

\* rpc('cleanup_old_batches', {p_days_old: 7})
rpcCleanupOldBatches(k, failure) ==
  /\ k.fn = "maintenance" /\ k.pc = "cleanup_old_batches"
  /\ LET bs == cleanup_old_batches(batches, MAINT_CLEANUP_DAYS, now)
     IN /\ batches' = IF failure THEN batches ELSE bs
        /\ tasks' = SetTask(k, Called(k, failure,
                       IF failure THEN NULL
                       ELSE Cardinality({i \in Ids(bs) :
                              bs[i].status # batches[i].status})))
  /\ UNCHANGED dlq
  /\ UNCHANGED api_rate_limits

\* new Response(..., {status: 500}) of the catch block, or the answer with
\* success: true (status 200)
maintenanceResponds(k) ==
  /\ k.fn = "maintenance" /\ k.pc \in {"respond", "catch"}
  /\ tasks' = SetTask(k, [k EXCEPT !.pc = "done",
                                   !.status = IF k.pc = "catch"
                                              THEN 500 ELSE 200])
  /\ UNCHANGED <<batches, dlq>>
  /\ UNCHANGED api_rate_limits

maintenanceReturns(k) ==
  /\ k.fn = "maintenance" /\ k.pc = "done"
  /\ tasks' = tasks \ {k}
  /\ UNCHANGED <<batches, dlq>>
  /\ UNCHANGED api_rate_limits

\* the store a maintenance tick finds: for every key, what became of its
\* batch.  "dead": processing, the lease ran out 35 minutes ago; "stuck":
\* the same after a failed dispatch and a retry; "fresh": processing under
\* a lease in force; "kept": completed now; "week": completed exactly 7
\* days ago; "old": completed more than 7 days ago; "parked": dead-lettered, the dead-letter
\* row requeued 3 times; "lettered": dead-lettered and never requeued;
\* "again": dead-lettered, and a pending batch of the same key inserted
\* after that
Histories ==
  {"none", "dead", "stuck", "fresh", "kept", "week", "old", "parked",
   "lettered", "again"}

CompletedRow(a) ==
  NotSeq(MarkCompleted(<<ProcessingRow(a, "fresh")>>, [id |-> 1], now)[1])

RECURSIVE MaintenanceStore(_, _)
MaintenanceStore(h, n) ==
  IF n = 0 THEN [batches |-> <<>>, dlq |-> <<>>]
  ELSE LET p == MaintenanceStore(h, n - 1)
           a == Len(p.batches) + 1
           letter == DeadLetterRow(a, now)
       IN CASE h[n] = "dead" ->
                 [p EXCEPT !.batches = Append(@, ProcessingRow(a, "dead"))]
            [] h[n] = "stuck" ->
                 [p EXCEPT !.batches =
                    Append(@, [ProcessingRow(a, "dead") EXCEPT
                                 !.retry_count = 1,
                                 !.error_message = ErrorMessage])]
            [] h[n] = "fresh" ->
                 [p EXCEPT !.batches = Append(@, ProcessingRow(a, "fresh"))]
            [] h[n] = "kept" ->
                 [p EXCEPT !.batches = Append(@, CompletedRow(a))]
            [] h[n] = "week" ->
                 [p EXCEPT !.batches =
                    Append(@, [CompletedRow(a) EXCEPT
                                 !.completed_at =
                                   now - Days(MAINT_CLEANUP_DAYS)])]
            [] h[n] = "old" ->
                 [p EXCEPT !.batches =
                    @ \o Elapse(<<CompletedRow(a)>>,
                                Days(MAINT_CLEANUP_DAYS) + 1)]
            [] h[n] = "parked" ->
                 [batches |-> Append(p.batches, ErrorRow(a, now)),
                  dlq |-> Append(p.dlq,
                            [letter EXCEPT
                               !.retry_count = REQUEUE_MAX_RETRIES])]
            [] h[n] = "lettered" ->
                 [batches |-> Append(p.batches, ErrorRow(a, now)),
                  dlq |-> Append(p.dlq, letter)]
            [] h[n] = "again" ->
                 [batches |-> InsertBatch(Append(p.batches, ErrorRow(a, now)),
                                          "album_discovery", Meta(a, NULL)),
                  dlq |-> Append(p.dlq, letter)]
            [] OTHER -> p

InitMaintenance ==
  \E h \in [1..MaintenanceKeys -> Histories] :
    /\ batches = MaintenanceStore(h, MaintenanceKeys).batches
    /\ dlq = MaintenanceStore(h, MaintenanceKeys).dlq
    /\ tasks = {}
    /\ api_rate_limits = NoRateLimit

NextMaintenance ==
  \/ maintenanceStarted
  \/ \E k \in tasks, failure \in BOOLEAN : rpcResetExpiredBatches(k, failure)
  \/ \E k \in tasks, failure \in BOOLEAN :
       rpcRequeueDeadLetterItems(k, failure)
  \/ \E k \in tasks, failure \in BOOLEAN : rpcCleanupOldBatches(k, failure)
  \/ \E k \in tasks : maintenanceResponds(k)
  \/ \E k \in tasks : maintenanceReturns(k)

SpecMaintenance == InitMaintenance /\ [][NextMaintenance]_vars

\* ------------------------------------------------------ worker invocation
\* one invocation of the worker function from the request to the response:
\* before is the store at its start, rpc what the claim call returned,
\* claimed the batches it returned, invoked the batches whose handler was
\* invoked, completed those for which processBatch returned true, result
\* the value of claimAndProcessBatches and status the HTTP status
WorkerTick(bs, dl) ==
  [fn |-> "worker", wid |-> NULL, pc |-> "claim",
   before |-> [batches |-> bs, dlq |-> dl],
   rpc |-> [error |-> FALSE, data |-> {}],
   claimed |-> {}, invoked |-> {}, completed |-> {},
   result |-> [claimed |-> NULL, completed |-> NULL, failed |-> NULL,
               error |-> <<>>],
   status |-> NULL]

\* error.message of the error the claim call returned
ClaimError == <<"claim failed">>

\* a worker that does not look at the error of the claim call: data is
\* null, so it returns at !batches
AfterClaimIgnoringError(error, length) ==
  IF length = 0 THEN "empty" ELSE "process"

\* if (error) throw error; if (!batches || batches.length === 0) return
AfterClaim(error, length) ==
  IF error THEN "catch"
  ELSE IF length = 0 THEN "empty" ELSE "process"

workerStarts ==
  /\ tasks = {}
  /\ tasks' = {WorkerTick(batches, dlq)}
  /\ UNCHANGED <<batches, dlq>>
  /\ UNCHANGED api_rate_limits

\* rpc('claim_processing_batches', {p_limit: jobsToFetch}); failure: the
\* call does not reach the database or fails in it, nothing is committed
\* and error is set
workerClaims(k, failure) ==
  /\ k.fn = "worker" /\ k.pc = "claim"
  /\ OrZero(inProgressCount(batches)) < MAX_CONCURRENT_JOBS
  /\ \E S \in ClaimSelections(batches, now, jobsToFetch(batches)) :
       LET w == gen_random_uuid
           data == IF failure THEN {} ELSE S
       IN /\ batches' = IF failure THEN batches
                        ELSE claim_processing_batches(batches, S, w, now)
          /\ tasks' = SetTask(k,
               [k EXCEPT !.rpc = [error |-> failure, data |-> data],
                         !.wid = IF data = {} THEN NULL ELSE w,
                         !.claimed = data,
                         !.pc = AfterClaim(failure, Cardinality(data))])
  /\ UNCHANGED dlq
  /\ UNCHANGED api_rate_limits

\* return {claimed: 0}, or the catch block's
\* return {claimed: 0, error: error.message}
workerClaimedNothing(k) ==
  /\ k.fn = "worker" /\ k.pc \in {"empty", "catch"}
  /\ tasks' = SetTask(k,
       [k EXCEPT !.result.claimed = 0,
                 !.result.error = IF k.pc = "catch" THEN ClaimError
                                  ELSE <<>>,
                 !.pc = "respond"])
  /\ UNCHANGED <<batches, dlq>>
  /\ UNCHANGED api_rate_limits

\* processBatch(batch.id, batch.batch_type, batch.metadata) from the
\* invocation of the handler to its return value; ok: the handler
\* answered 200 after inserting its child c
workerProcessBatch(k, i, ok, c) ==
  /\ k.fn = "worker" /\ k.pc = "process"
  /\ i \in k.claimed \ k.invoked
  /\ LET t == [id |-> i, batch_type |-> batches[i].batch_type,
               retryCount |-> batches[i].retry_count + 1,
               dlq_metadata |-> batches[i].metadata]
         retry == ShouldRetry(t.retryCount, RETRY_LIMITS(t.batch_type))
         failed == InsertDeadLetter(dlq,
                     HandlerDeadLetterItem(functionName(t.batch_type)))
     IN /\ batches' =
             IF ok
             THEN MarkCompleted(IF c[1] = "none" THEN batches
                                ELSE InsertBatch(batches, c[1], c[2]),
                                t, now)
             ELSE IF retry THEN RetryWrite(batches, t)
             ELSE ErrorWrite(batches, t, now)
        /\ dlq' = IF ok THEN dlq
                  ELSE IF retry THEN failed
                  ELSE InsertDeadLetter(failed, DeadLetterItem(t))
  /\ tasks' = SetTask(k,
       [k EXCEPT !.invoked = @ \cup {i},
                 !.completed = IF ok THEN @ \cup {i} ELSE @])
  /\ UNCHANGED api_rate_limits

\* Promise.allSettled has every result
workerSettled(k) ==
  /\ k.fn = "worker" /\ k.pc = "process"
  /\ k.invoked = k.claimed
  /\ tasks' = SetTask(k,
       [k EXCEPT !.result.claimed = Cardinality(k.claimed),
                 !.result.completed = Cardinality(k.completed),
                 !.result.failed = Cardinality(k.claimed \ k.completed),
                 !.pc = "respond"])
  /\ UNCHANGED <<batches, dlq>>
  /\ UNCHANGED api_rate_limits

\* new Response(JSON.stringify(result), {status: 200})
workerResponds(k) ==
  /\ k.fn = "worker" /\ k.pc = "respond"
  /\ tasks' = SetTask(k, [k EXCEPT !.pc = "done", !.status = 200])
  /\ UNCHANGED <<batches, dlq>>
  /\ UNCHANGED api_rate_limits

workerEnds(k) ==
  /\ k.fn = "worker" /\ k.pc = "done"
  /\ tasks' = tasks \ {k}
  /\ UNCHANGED <<batches, dlq>>
  /\ UNCHANGED api_rate_limits

InitWorker ==
  \E n \in 1..TickBatches :
    /\ batches = Seeded(n)
    /\ dlq = <<>>
    /\ tasks = {}
    /\ api_rate_limits = NoRateLimit

NextWorker ==
  \/ /\ tasks = {}
     /\ \E d \in LeaseSteps : AdvanceTime(d)
  \/ workerStarts
  \/ \E k \in tasks, failure \in BOOLEAN : workerClaims(k, failure)
  \/ \E k \in tasks : workerClaimedNothing(k)
  \/ \E k \in tasks, i \in Ids(batches), ok \in BOOLEAN :
       \E c \in IF ok /\ i \in k.claimed
                THEN HandlerChildren(batches[i].batch_type,
                                     batches[i].metadata)
                ELSE {<<"none", Meta(NULL, NULL)>>} :
         /\ workerProcessBatch(k, i, ok, c)
         /\ Len(batches') <= TickBatches + TickChildren
  \/ \E k \in tasks : workerSettled(k)
  \/ \E k \in tasks : workerResponds(k)
  \/ \E k \in tasks : workerEnds(k)

SpecWorker == InitWorker /\ [][NextWorker]_vars

\* ------------------------------------------------------ handler invocation
\* the value checkRateLimit returns for the row it reads
Admits(rateLimit) ==
  IF ~rateLimit.present THEN TRUE
  ELSE IF /\ rateLimit.requests_remaining <= 0
          /\ GreaterThan(rateLimit.reset_at, JsDate(now))
  THEN TRUE
  ELSE rateLimit.requests_remaining > 0

\* one invocation of a handler for the dispatch of batch i under the claim
\* of worker w: run counts the invocations, child is the batch that the
\* page returned by the API makes it emit, ok is whether it answered 200,
\* inserted the number of rows it added to the batch table, before at its
\* start and after at its end
HandlerRun(i, w, child, ok, before, after) ==
  [fn |-> "handler", wid |-> w, id |-> i,
   batch_type |-> before[i].batch_type, metadata |-> before[i].metadata,
   run |-> Cardinality(tasks) + 1, child |-> child, ok |-> ok,
   pc |-> IF ok THEN "ok" ELSE "failed",
   inserted |-> Len(after) - Len(before)]

\* the serve handler of process-album-page / process-track-page from the
\* request to the response: the gate, the call of the API, the update of
\* the rate-limit row from the headers of the response, the upsert of the
\* page and the insert of the child c; a refused call throws, and the
\* catch block sends its dead-letter row and answers 500
handlerRuns(i, c, remainingHeader, resetHeader) ==
  /\ i \in Ids(batches) /\ batches[i].status = "processing"
  /\ ~\E k \in tasks : k.id = i /\ k.wid = batches[i].claimed_by
  /\ c \in HandlerChildren(batches[i].batch_type, batches[i].metadata)
  /\ IF Admits(api_rate_limits)
     THEN /\ api_rate_limits' =
               RateLimit(parseInt(HeaderOrZero(remainingHeader)),
                         ResetDate(parseInt(HeaderOrZero(resetHeader))))
          /\ batches' = IF c[1] = "none" THEN batches
                        ELSE InsertBatch(batches, c[1], c[2])
          /\ dlq' = dlq
     ELSE /\ dlq' = InsertDeadLetter(dlq,
                       HandlerDeadLetterItem(
                         functionName(batches[i].batch_type)))
          /\ UNCHANGED <<batches, api_rate_limits>>
  /\ tasks' = tasks \cup {HandlerRun(i, batches[i].claimed_by, c,
                                     Admits(api_rate_limits),
                                     batches, batches')}

\* processBatch after the fetch of the handler: the completed write when
\* the answer was ok, handleError otherwise.  lost: the handler answered
\* 200 but the answer did not reach the worker, its fetch threw
dispatchReturns(k, lost) ==
  /\ k.fn = "handler" /\ k.pc \in {"ok", "failed"}
  /\ lost => k.pc = "ok"
  /\ LET t == [id |-> k.id, batch_type |-> k.batch_type,
               retryCount |-> (IF Exists(batches, k.id)
                               THEN batches[k.id].retry_count ELSE 0) + 1,
               dlq_metadata |-> IF Exists(batches, k.id)
                                THEN batches[k.id].metadata
                                ELSE Meta(NULL, NULL)]
         retry == ShouldRetry(t.retryCount, RETRY_LIMITS(t.batch_type))
     IN /\ batches' = IF k.pc = "ok" /\ ~lost
                      THEN MarkCompleted(batches, t, now)
                      ELSE IF retry THEN RetryWrite(batches, t)
                      ELSE ErrorWrite(batches, t, now)
        /\ dlq' = IF (k.pc = "ok" /\ ~lost) \/ retry THEN dlq
                  ELSE InsertDeadLetter(dlq, DeadLetterItem(t))
  /\ tasks' = SetTask(k, [k EXCEPT !.pc = "done"])
  /\ UNCHANGED api_rate_limits

\* one batch, claimed and about to be dispatched
InitHandler ==
  /\ batches = claim_processing_batches(Seeded(1), {1}, 1, now)
  /\ dlq = <<>>
  /\ tasks = {}
  /\ api_rate_limits = NoRateLimit

\* the API sends its rate-limit headers or none
NextHandler ==
  \/ AdvanceTime(Minutes(LEASE_MINUTES) + 1)
  \/ rpcClaimProcessingBatches(MAX_CONCURRENT_JOBS)
  \/ \E i \in Ids(batches),
        h \in {<<<<>>, <<>>>>, <<Digits(MaxRemaining), Digits(MaxResetAt)>>} :
       \E c \in HandlerChildren(batches[i].batch_type,
                                batches[i].metadata) :
         /\ handlerRuns(i, c, h[1], h[2])
         /\ Cardinality(tasks') <= MaxRuns
         /\ Len(batches') <= MaxRuns
  \/ \E k \in tasks, lost \in BOOLEAN : dispatchReturns(k, lost)

SpecHandler == InitHandler /\ [][NextHandler]_vars

\* ------------------------------------------------- handler resolution
\* the values of batch_type that reach the dispatcher: the five kinds it
\* names, the name of a handler itself, a kind that nothing in the
\* repository handles, a kind spelled in another case, and the empty string
DispatchTypes ==
  {"album_discovery", "album_page", "track_discovery", "track_page",
   "producer_discovery", "identify-producers", "artist_discovery",
   "Track_Page", "album", ""}

RECURSIVE Typed(_, _)
\* n batches, batch i of kind ts[i]
Typed(ts, n) ==
  IF n = 0 THEN <<>>
  ELSE InsertBatch(Typed(ts, n - 1), ts[n], Meta(n, NULL))

\* processBatch from its call to the URL it fetches: the switch over
\* batchType and the path /functions/v1/${functionName}
processBatchResolves(i) ==
  /\ i \in Ids(batches) /\ batches[i].status = "processing"
  /\ ~\E k \in tasks : k.id = i
  /\ tasks' = tasks \cup
       {[fn |-> "resolve", wid |-> batches[i].claimed_by, id |-> i,
         batchType |-> batches[i].batch_type,
         functionName |-> functionName(batches[i].batch_type),
         url |-> <<"functions", "v1",
                   functionName(batches[i].batch_type)>>]}
  /\ UNCHANGED <<batches, dlq, api_rate_limits>>

\* the batches of one claim, of any kinds
InitResolve ==
  /\ \E n \in 1..ResolveBatches :
       \E ts \in [1..n -> DispatchTypes] :
         batches = claim_processing_batches(Typed(ts, n), 1..n, 1, now)
  /\ dlq = <<>>
  /\ tasks = {}
  /\ api_rate_limits = NoRateLimit

NextResolve == \E i \in Ids(batches) : processBatchResolves(i)

SpecResolve == InitResolve /\ [][NextResolve]_vars

\* ------------------------------------------------------------------ claims
\* the dead-letter rows written for batch i
DeadLettersOf(i) == {d \in DOMAIN dlq : dlq[d].original_batch_id = i}

\* the dispatches of batch i that are inside the branches pcs of handleError
InErrorHandling(i, pcs) == {k \in tasks : k.id = i /\ k.pc \in pcs}

\* C1: in every reachable state, whatever the interleaving of the claim
\* calls of overlapping worker ticks, a batch in status processing is held
\* by exactly one claim, the one of the worker named in claimed_by: no two
\* claim calls returned it while it stayed processing.
C1_OneClaimInForce ==
  \A i \in Ids(batches) :
    batches[i].status = "processing"
      => /\ batches[i].claimed_by # NULL
         /\ batches[i].holders = {batches[i].claimed_by}

\* a batch was reset under a slow worker and claimed again by a second one
\* while the first still dispatches it
C1_Witness ==
  \E i \in Ids(batches) : \E k1, k2 \in tasks :
    /\ batches[i].status = "processing"
    /\ k1.id = i /\ k2.id = i /\ k1.wid # k2.wid
    /\ k1.pc # "done" /\ k2.pc # "done"
    /\ batches[i].claimed_by = k2.wid
    /\ batches[i].holders = {k2.wid}

\* C2: completed is terminal: no step changes the status of a completed
\* batch, except that cleanup removes the row.
C2_CompletedIsTerminal ==
  [][\A i \in Ids(batches) :
       batches[i].status = "completed"
         => batches'[i].status \in {"completed", "deleted"}]_vars

\* a completed batch while a second, late dispatch of it is still running
C2_Witness ==
  \E i \in Ids(batches) : \E k \in tasks :
    /\ batches[i].status = "completed"
    /\ k.id = i /\ k.pc \in {"fetch", "retry", "exhausted"}

\* C3: once the error handling of a batch has finished, a batch in status
\* error has completed_at set and exactly one dead-letter row naming it in
\* original_batch_id.
C3_ErrorHasOneDeadLetter ==
  \A i \in Ids(batches) :
    (/\ batches[i].status = "error"
     /\ InErrorHandling(i, {"exhausted", "dlq"}) = {})
      => /\ batches[i].completed_at # NULL
         /\ Cardinality(DeadLettersOf(i)) = 1

\* two dispatches of one batch both ran out of retries
C3_Witness ==
  \E i \in Ids(batches) :
    /\ batches[i].status = "error"
    /\ InErrorHandling(i, {"exhausted", "dlq"}) = {}
    /\ Cardinality(DeadLettersOf(i)) = 2

\* C4: in every reachable state at most one batch in an active status
\* (pending or processing) carries a given batch_type and metadata.
C4_OneActivePerKey ==
  \A i, j \in Ids(batches) :
    (/\ i # j
     /\ batches[i].status \in Active
     /\ batches[j].status \in Active)
      => ~(/\ batches[i].batch_type = batches[j].batch_type
           /\ batches[i].metadata = batches[j].metadata)

\* a dead-lettered batch beside a new active batch of the same key
C4_Witness ==
  \E i, j \in Ids(batches) :
    /\ batches[i].status = "error"
    /\ batches[j].status \in Active
    /\ batches[i].batch_type = batches[j].batch_type
    /\ batches[i].metadata = batches[j].metadata

\* C5: in every reachable state a batch in status pending, processing or
\* completed has a retry_count of at most the retry limit of its
\* batch_type, the batches created by requeue_dead_letter_items included.
C5_RetryCountWithinLimit ==
  \A i \in Ids(batches) :
    batches[i].status \in {"pending", "processing", "completed"}
      => batches[i].retry_count <= RETRY_LIMITS(batches[i].batch_type)

\* a requeued batch that starts at the retry limit of its type
C5_Witness ==
  \E i \in Ids(batches) :
    /\ batches[i].origin # 0
    /\ batches[i].status = "pending"
    /\ batches[i].retry_count = RETRY_LIMITS(batches[i].batch_type)

\* C6: whenever requeue_dead_letter_items(limit) is invoked, every
\* dead-letter row it selects has afterwards a pending batch of its
\* item_type and metadata, a retry_count increased by exactly 1, and is
\* still present.
C6_RequeueKeepsEveryItem ==
  LET r == requeue_dead_letter_items(batches, dlq, MAINT_REQUEUE_LIMIT)
  IN \A d \in RequeueItems(dlq, MAINT_REQUEUE_LIMIT) :
       /\ d \in DOMAIN r.dlq
       /\ r.dlq[d].retry_count = dlq[d].retry_count + 1
       /\ \E i \in Ids(r.batches) :
            /\ r.batches[i].status = "pending"
            /\ r.batches[i].batch_type = dlq[d].item_type
            /\ r.batches[i].metadata = dlq[d].metadata

\* a selectable dead-letter row whose key an active batch already carries
C6_Witness ==
  \E d \in RequeueItems(dlq, MAINT_REQUEUE_LIMIT) :
    ~idx_batches_unique_metadata(batches, 0, dlq[d].item_type,
                                 dlq[d].metadata)

\* C7: in every reachable state a dead-letter row has a retry_count of at
\* most 3 and as many batches were created from it as its retry_count
\* says: a row at 3 is requeued no more.
C7_RequeuedAtMostThreeTimes ==
  \A d \in DOMAIN dlq :
    /\ dlq[d].retry_count <= 3
    /\ Cardinality({i \in Ids(batches) : batches[i].origin = d})
         = dlq[d].retry_count

\* requeue ran over a row at 3 and a younger row: only the younger one
\* was requeued
C7_Witness ==
  /\ Len(dlq) = 2
  /\ dlq[1].retry_count = 3
  /\ dlq[2].retry_count = 1
  /\ Cardinality({i \in Ids(batches) : batches[i].origin = 1}) = 3

\* C8: a batch inserted by a handler and dispatched by sequential worker
\* ticks whose handler always fails has, after k failed dispatches, a
\* retry_count of k, for every k up to the retry limit L of its type; after
\* the L-th it is in status error and, once handleError has finished, a
\* dead-letter row carries its batch_type and metadata.
C8_RetryCountCountsFailures ==
  \A i \in Ids(batches) :
    (batches[i].seq /\ batches[i].origin = 0)
      => /\ batches[i].fails <= RETRY_LIMITS(batches[i].batch_type)
         /\ batches[i].retry_count = batches[i].fails
         /\ batches[i].fails = RETRY_LIMITS(batches[i].batch_type)
              => /\ batches[i].status = "error"
                 /\ InErrorHandling(i, {"dlq"}) = {}
                      => \E d \in DOMAIN dlq :
                           /\ dlq[d].item_type = batches[i].batch_type
                           /\ dlq[d].metadata = batches[i].metadata

\* an album_page batch after its fifth failed dispatch in a row
C8_Witness ==
  \E i \in Ids(batches) :
    /\ batches[i].batch_type = "album_page"
    /\ batches[i].seq /\ batches[i].origin = 0
    /\ batches[i].fails = 5
    /\ batches[i].status = "error"
    /\ batches[i].retry_count = 4
    /\ DeadLettersOf(i) # {}

\* the batches a step claims
ClaimedNow ==
  {i \in Ids(batches) :
     batches[i].status = "pending" /\ batches'[i].status = "processing"}

\* C9: a worker tick that starts while MAX_CONCURRENT_JOBS or more batches
\* are processing claims no batch.
C9_NoClaimAtFullConcurrency ==
  [][ProcessingCount(batches) >= MAX_CONCURRENT_JOBS
       => ClaimedNow = {}]_vars

\* more batches are processing than MAX_CONCURRENT_JOBS
C9_Witness == ProcessingCount(batches) > MAX_CONCURRENT_JOBS

\* C10: a worker tick claims at most MAX_CONCURRENT_JOBS batches, exactly
\* as many as MAX_CONCURRENT_JOBS when that many are claimable, and leaves
\* every other batch as it was; a claimed batch leaves processing only for
\* completed, pending or error, every settled dispatch has done so, and a
\* batch that has left processing is not written a second time.
C10_TickClaimsThree ==
  [][/\ Cardinality(ClaimedNow) <= MAX_CONCURRENT_JOBS
     /\ ClaimedNow # {}
          => /\ Cardinality(ClaimedNow)
                  = Min(MAX_CONCURRENT_JOBS,
                        Cardinality(claimable_batches(batches, now)))
             /\ \A i \in Ids(batches) \ ClaimedNow :
                  batches'[i] = batches[i]
     /\ \A i \in Ids(batches) :
          /\ (batches[i].status = "processing"
                /\ batches'[i].status # "processing")
               => batches'[i].status \in {"completed", "pending", "error"}
          /\ (batches[i].started_at # NULL
                /\ batches[i].status # "processing")
               => batches'[i] = batches[i]
     /\ \A k \in tasks' :
          k.pc = "done" => batches'[k.id].status # "processing"]_vars

\* the first tick over ten pending batches has settled its three
\* dispatches, seven batches were never touched
C10_Witness ==
  /\ Cardinality(tasks) = 3
  /\ \A k \in tasks : k.pc = "done"
  /\ Cardinality({i \in Ids(batches) :
                    /\ batches[i].status = "pending"
                    /\ batches[i].started_at = NULL
                    /\ batches[i].claimed_by = NULL
                    /\ i <= S3Batches}) = S3Batches - 3
  /\ \E k \in tasks : k.value = "true"
  /\ \E k \in tasks : k.value = "false"

\* the worker invocations whose dispatches have all settled
Settled == {w \in WorkerIds : \A k \in tasks : k.wid = w => k.pc = "done"}

\* C11: a failing handler neither fails the tick nor its sibling dispatches:
\* a dispatch whose handler answered is carried to its end whatever its
\* siblings did, and the summary of a tick whose dispatches have settled
\* counts every claimed batch once, claimed = completed + failed, completed
\* being the batches whose handler succeeded and failed the others.
C11_TickSummaryAddsUp ==
  /\ \A k \in tasks :
       /\ k.pc = "fetch" <=> k.handler = "none"
       /\ k.pc = "ok" => k.handler = "ok"
       /\ k.pc = "done" => k.value = (IF k.handler = "ok" THEN "true"
                                      ELSE "false")
  /\ \A w \in Settled :
       LET mine == {k \in tasks : k.wid = w}
           r == Response(w)
       IN /\ r.claimed = Cardinality(mine)
          /\ r.claimed = r.completed + r.failed
          /\ r.completed = Cardinality({k \in mine : k.handler = "ok"})
          /\ r.failed = Cardinality({k \in mine : k.handler = "failed"})

\* a tick of three dispatches, two of them failed, is about to answer
C11_Witness ==
  \E w \in Settled :
    Response(w) = [claimed |-> 3, completed |-> 1, failed |-> 2]

\* C12: at-least-once execution.  A batch becomes completed only in the
\* step of a dispatch that invoked the handler with the batch's type and
\* metadata and got its success; and when worker invocations die only
\* finitely often, every batch in the table is eventually dispatched and
\* eventually reaches completed or error.
C12_AtLeastOnce ==
  /\ [][\A i \in Ids(batches') :
          (/\ batches'[i].status = "completed"
           /\ i \in Ids(batches) => batches[i].status # "completed")
            => \E k \in tasks :
                 /\ k.id = i /\ k.pc = "ok" /\ k.handler = "ok"
                 /\ k.batch_type = batches'[i].batch_type
                 /\ k.metadata = batches'[i].metadata]_vars
  /\ (<>[][~ \E w \in WorkerIds : WorkerCrashes(w)]_vars)
       => \A i \in 1..LiveBatches :
            (i \in Ids(batches))
              ~> (/\ i \in Ids(batches)
                  /\ batches[i].started_at # NULL
                  /\ batches[i].status \in {"completed", "error"})

\* the first batch is completed and the worker that had claimed its child
\* died: the child is processing and nothing dispatches it
C12_Witness ==
  /\ tasks = {}
  /\ \E i, j \in Ids(batches) :
       /\ batches[i].status = "completed"
       /\ batches[j].status = "processing"

\* the worker invocations that claimed one batch, that the handler
\* succeeded for, and have settled
SettledOneSuccess ==
  {w \in Settled :
     \E k \in tasks :
       /\ {j \in tasks : j.wid = w} = {k}
       /\ k.handler = "ok"}

\* C13: when a worker tick that claimed one pending batch, and whose
\* handler succeeded, is about to answer, the batch is completed with
\* started_at and completed_at set, items_processed = 1 and
\* items_total = 1, no dead-letter row names it and the answer is
\* {claimed: 1, completed: 1, failed: 0}; no step of a dispatch other than
\* the retry write changes a retry_count.
C13_HappyPath ==
  /\ [](\A w \in SettledOneSuccess : \A k \in tasks :
          k.wid = w
            => /\ Response(w) = [claimed |-> 1, completed |-> 1, failed |-> 0]
               /\ DeadLettersOf(k.id) = {}
               /\ Exists(batches, k.id)
                    => /\ batches[k.id].status = "completed"
                       /\ batches[k.id].started_at # NULL
                       /\ batches[k.id].completed_at # NULL
                       /\ batches[k.id].items_processed = 1
                       /\ batches[k.id].items_total = 1)
  /\ [][\A i \in Ids(batches) :
          (/\ Exists(batches', i)
           /\ batches'[i].retry_count # batches[i].retry_count)
            => \E k \in tasks : k.id = i /\ k.pc = "retry"]_vars

\* the tick over the one batch of discover-artists is about to answer
C13_Witness ==
  \E w \in SettledOneSuccess : \E k \in tasks :
    /\ k.wid = w
    /\ batches[k.id].status = "completed"
    /\ batches[k.id].batch_type = "album_discovery"
    /\ batches[k.id].retry_count = 0
    /\ dlq = <<>>

\* the expiry intervals whose comparison the time axis keeps exact: none
\* and the 30 minutes that the maintenance function and the monitor pass
ExpiryMinutes == {0, MAINT_EXPIRY_MINUTES}

\* C14: whenever reset_expired_batches(m) is invoked, the table it leaves
\* has no batch in status processing with claim_expires_at earlier than
\* now - m minutes, and the integer it returns is the number of batches it
\* moved from processing to pending.
C14_ResetLeavesNoExpired ==
  \A m \in ExpiryMinutes :
    LET r == reset_expired_batches(batches, m, now)
    IN /\ \A i \in Ids(r) :
            ~(/\ r[i].status = "processing"
              /\ r[i].claim_expires_at # NULL
              /\ r[i].claim_expires_at < now - Minutes(m))
       /\ reset_expired_v_count(batches, m, now)
            = Cardinality({i \in Ids(batches) :
                             /\ batches[i].status = "processing"
                             /\ r[i].status = "pending"})

\* a batch whose worker died and whose lease ran out more than 30 minutes
\* ago: reset_expired(30) takes it back and returns 1
C14_Witness ==
  \E i \in Ids(batches) :
    /\ batches[i].status = "processing"
    /\ batches[i].claim_expires_at < now - Minutes(MAINT_EXPIRY_MINUTES)
    /\ tasks = {}
    /\ reset_expired_v_count(batches, MAINT_EXPIRY_MINUTES, now) = 1
    /\ reset_expired_batches(batches, MAINT_EXPIRY_MINUTES, now)[i].status
         = "pending"

\* C15: in every reachable state a batch in status processing has
\* claimed_by and claim_expires_at set.
C15_ProcessingIsLeased ==
  \A i \in Ids(batches) :
    batches[i].status = "processing"
      => /\ batches[i].claimed_by # NULL
         /\ batches[i].claim_expires_at # NULL

\* a batch that lost its lease in a reset (or whose worker died) has been
\* claimed again and is not yet handled
C15_Witness ==
  \E i \in Ids(batches) : \E k \in tasks :
    /\ batches[i].status = "processing"
    /\ ~batches[i].seq
    /\ k.id = i /\ k.pc = "fetch"
    /\ batches[i].claimed_by = k.wid
    /\ batches[i].claim_expires_at = now + Minutes(LEASE_MINUTES)

\* the patterns of the supported subset
EveryMinute == Join(<<<<"*">>, <<"*">>, <<"*">>, <<"*">>, <<"*">>>>)

EveryN(n) ==
  Join(<<<<"*", "/">> \o Digits(n), <<"*">>, <<"*">>, <<"*">>, <<"*">>>>)

AtMinute(m) == Join(<<Digits(m), <<"*">>, <<"*">>, <<"*">>, <<"*">>>>)

\* C16: the pattern test fires as the supported subset prescribes: the
\* pattern "* * * * *" at every minute, "*/N * * * *" exactly at the
\* minutes divisible by N, "M * * * *" exactly at minute M, and a pattern
\* of no such shape at no minute.
C16_CronSubset ==
  \A k \in tasks :
    k.fn = "scheduler"
      => (k.fires
            <=> \/ k.cronPattern = EveryMinute
                \/ \E n \in 1..(MaxMinute + 1) :
                     /\ k.cronPattern = EveryN(n)
                     /\ k.currentMinute % n = 0
                \/ \E m \in 0..MaxMinute :
                     /\ k.cronPattern = AtMinute(m)
                     /\ k.currentMinute = m)

\* the pattern "0 3 * * *" (daily at 3:00) was tested at minute 0 and fired
C16_Witness ==
  \E k \in tasks :
    /\ k.fn = "scheduler"
    /\ k.cronPattern = Join(<<<<"0">>, <<"3">>, <<"*">>, <<"*">>, <<"*">>>>)
    /\ k.currentMinute = 0
    /\ k.fires

\* the monitor invocations at the positions pcs
Monitors(pcs) == {k \in tasks : k.fn = "monitor" /\ k.pc \in pcs}

HasCritical(k) == \E alert \in k.alerts : alert.level = "critical"

\* C17: the stalled_batches of a report is the number of batches in
\* processing whose started_at is older than 30 minutes when the monitor
\* reads them; the report has a critical alert exactly when that number
\* exceeds 5; and the monitor has invoked reset_expired_batches(30) and
\* recorded one reset_stalled_batches action exactly when the report has
\* a critical alert and stalled_batches > 0, so neither with 5 or fewer.
C17_RemediatesOnCritical ==
  /\ [](\A k \in Monitors({"remediate", "done"}) :
          HasCritical(k) <=> k.metrics.stalled_batches > 5)
  /\ [](\A k \in Monitors({"done"}) :
          LET due == HasCritical(k) /\ k.metrics.stalled_batches > 0
          IN /\ due <=> (\E c \in DOMAIN k.rpc :
                           k.rpc[c].fn = "reset_expired_batches")
             /\ due <=> (\E a \in DOMAIN k.actions :
                           k.actions[a].action = "reset_stalled_batches")
             /\ Len(k.rpc) <= 1 /\ Len(k.actions) <= 1
             /\ k.metrics.stalled_batches <= 5
                  => k.rpc = <<>> /\ k.actions = <<>>)
  /\ [][\A k \in Monitors({"stalled_batches"}) :
          \A j \in tasks' :
            j.pc = "remediate"
              => j.metrics.stalled_batches
                   = Cardinality(
                       {i \in Ids(batches) :
                          /\ batches[i].status = "processing"
                          /\ batches[i].started_at # NULL
                          /\ batches[i].started_at < now - Minutes(30)})]_vars

\* a report over six stalled batches: critical, reset invoked and recorded
C17_Witness ==
  \E k \in Monitors({"done"}) :
    /\ k.metrics.stalled_batches = 6
    /\ HasCritical(k)
    /\ Len(k.rpc) = 1
    /\ Len(k.actions) = 1

\* C18: the step in which a monitor invocation performs its
\* auto-remediation leaves no stalled batch, no batch in processing with
\* started_at older than 30 minutes, and the count it records in the
\* reset_stalled_batches action is the number of batches that the step
\* moved from processing to pending.
C18_RemediationClearsStalled ==
  [][\A k \in Monitors({"remediate"}) :
       \A j \in tasks' :
         (j.pc = "done" /\ j.actions # <<>>)
           => /\ stalledBatches(batches') = {}
              /\ j.actions[1].count
                   = Cardinality({i \in Ids(batches) :
                                    /\ batches[i].status = "processing"
                                    /\ batches'[i].status = "pending"})]_vars

\* the report records the reset of seven stalled batches, the reset moved
\* fewer and stalled batches remain
C18_Witness ==
  \E k \in Monitors({"done"}) :
    /\ k.actions # <<>>
    /\ k.actions[1].count = 7
    /\ k.rpc[1].returned < 7
    /\ stalledBatches(batches) # {}

\* the update that writes status error and completed_at is the last
\* update of a batch in error: the trigger set_processing_batches_updated_at
\* gives updated_at the same instant
ErrorBatches24h ==
  {i \in Ids(batches) :
     /\ batches[i].status = "error"
     /\ batches[i].completed_at # NULL
     /\ batches[i].completed_at >= now - Days(1)}

DeadLetterItems24h == {d \in DOMAIN dlq : dlq[d].created_at >= now - Days(1)}

\* C19: once the monitor has made its counts, dead_letter_items_24h of
\* the report is the number of dead-letter rows created within the last
\* 24 hours and error_batches_24h the number of error batches updated
\* within the last 24 hours, and the report carries a warning for the
\* former when it exceeds 10 and for the latter when it exceeds 20.
C19_ReportCounts24h ==
  /\ \A k \in Monitors({"error_batches", "stalled_batches", "remediate",
                         "done"}) :
       /\ k.metrics.dead_letter_items_24h = Cardinality(DeadLetterItems24h)
       /\ Cardinality(DeadLetterItems24h) > 10
            => Alert("warning", "dead_letter_items_24h") \in k.alerts
  /\ \A k \in Monitors({"stalled_batches", "remediate", "done"}) :
       /\ k.metrics.error_batches_24h = Cardinality(ErrorBatches24h)
       /\ Cardinality(ErrorBatches24h) > 20
            => Alert("warning", "error_batches_24h") \in k.alerts

\* a report over 21 batches dead-lettered within the day says 0 and 0
\* and carries no warning
C19_Witness ==
  \E k \in Monitors({"done"}) :
    /\ Cardinality(DeadLetterItems24h) = 21
    /\ Cardinality(ErrorBatches24h) = 21
    /\ k.metrics.dead_letter_items_24h = 0
    /\ k.metrics.error_batches_24h = 0
    /\ \A alert \in k.alerts : alert.level # "warning"

\* C20: the check of the rate-limit gate returns true in every case:
\* without a row and with requests_remaining > 0 at once, with
\* requests_remaining <= 0 and reset_at in the future after it waited
\* until reset_at, and with requests_remaining <= 0 and reset_at passed.
C20_GateAlwaysTrue ==
  \A k \in tasks :
    (k.fn = "gate" /\ k.pc = "done")
      => /\ k.value = "true"
         /\ IF /\ k.rateLimit.present
               /\ k.rateLimit.requests_remaining <= 0
               /\ k.rateLimit.reset_at.iso > now
            THEN k.waitTime = k.rateLimit.reset_at.iso - now
            ELSE k.waitTime = NULL

\* no requests remain and reset_at has passed: the check answered false
C20_Witness ==
  \E k \in tasks :
    /\ k.fn = "gate" /\ k.pc = "done"
    /\ k.rateLimit.present
    /\ k.rateLimit.requests_remaining = 0
    /\ k.rateLimit.reset_at.iso < now
    /\ k.value = "false"

\* the store after the first n calls of a maintenance invocation that
\* started on the store s, every one of them committed
MaintenanceEffects(s, n) ==
  LET s1 == [s EXCEPT !.batches =
               reset_expired_batches(@, MAINT_EXPIRY_MINUTES, now)]
      r == requeue_dead_letter_items(s1.batches, s1.dlq, MAINT_REQUEUE_LIMIT)
      s2 == [batches |-> r.batches, dlq |-> r.dlq]
      s3 == [s2 EXCEPT !.batches =
               cleanup_old_batches(@, MAINT_CLEANUP_DAYS, now)]
  IN <<s, s1, s2, s3>>[n + 1]

Maintenances == {k \in tasks : k.fn = "maintenance"}

\* C21: a maintenance invocation calls reset_expired(30), requeue_dlq(100)
\* and cleanup(7) in that order and makes no call after a call that
\* reported an error; it answers 500 exactly when its last call reported
\* an error and 200 exactly when all three calls succeeded, and the store
\* then holds the effects of exactly the calls that succeeded.
C21_MaintenanceAbortsOnError ==
  \A k \in Maintenances :
    LET n == Len(k.calls)
        done == {j \in 1..n : ~k.calls[j].error}
    IN /\ n <= 3
       /\ \A j \in 1..n : k.calls[j].fn = MaintenanceCalls[j]
       /\ \A j \in 1..(n - 1) : ~k.calls[j].error
       /\ k.pc = "done"
            => /\ n >= 1
               /\ k.status = 500 <=> k.calls[n].error
               /\ k.status = 200 <=> (n = 3 /\ ~k.calls[n].error)
               /\ [batches |-> batches, dlq |-> dlq]
                    = MaintenanceEffects(k.before, Cardinality(done))

\* the requeue hit the unique index after the reset had returned a batch
\* to pending: the answer is 500, cleanup was not called, the reset stays
C21_Witness ==
  \E k \in Maintenances :
    /\ k.pc = "done" /\ k.status = 500
    /\ Len(k.calls) = 2
    /\ k.calls[1].data = 1
    /\ \E i \in Ids(batches) :
         /\ k.before.batches[i].status = "processing"
         /\ batches[i].status = "pending"
    /\ \E i \in Ids(batches) :
         /\ batches[i].status = "completed"
         /\ batches[i].completed_at < now - Days(MAINT_CLEANUP_DAYS)
    /\ dlq = k.before.dlq

\* the dispatch k stands before one of its outcome writes
BeforeOutcomeWrite(k) == k.pc \in {"ok", "retry", "exhausted"}

\* the batch of dispatch k is processing under the lease k's worker obtained
UnderOwnLease(k) ==
  /\ k.id \in Ids(batches)
  /\ batches[k.id].status = "processing"
  /\ batches[k.id].claimed_by = k.wid

\* C22: the outcome write of a dispatch (completed, retry to pending, or
\* error) changes its batch only while the batch is processing under the
\* lease that the worker of the dispatch obtained; after a reset or a
\* re-claim by another worker the write of the earlier worker leaves the
\* batch as it is.
C22_OutcomeOnlyUnderLease ==
  [][\A k \in tasks :
       (/\ BeforeOutcomeWrite(k)
        /\ k \notin tasks'
        /\ ~UnderOwnLease(k))
         => batches'[k.id] = batches[k.id]]_vars

\* a dispatch about to write its outcome while its batch was reset and
\* claimed again by another worker
C22_Witness ==
  \E k \in tasks :
    /\ BeforeOutcomeWrite(k)
    /\ batches[k.id].status = "processing"
    /\ batches[k.id].claimed_by # k.wid

\* the active batches and the requeue-eligible dead-letter rows of the unit
\* of work (album_discovery, {artist_id: a})
ActiveOf(a) ==
  {i \in Ids(batches) :
     /\ batches[i].status \in Active
     /\ batches[i].batch_type = "album_discovery"
     /\ batches[i].metadata = Meta(a, NULL)}

EligibleOf(a) ==
  {d \in DOMAIN dlq :
     /\ dlq[d].retry_count < REQUEUE_MAX_RETRIES
     /\ dlq[d].item_type = "album_discovery"
     /\ dlq[d].metadata = Meta(a, NULL)}

\* C23: a unit of work whose handler always fails is dispatched a bounded
\* number of times: the system eventually reaches, and then stays in, a
\* state without a pending or processing batch and without a
\* requeue-eligible dead-letter row (retry_count < 3) of its batch_type
\* and metadata.
C23_PoisonIsParked ==
  \A a \in 1..PoisonKeys : <>[](ActiveOf(a) = {} /\ EligibleOf(a) = {})

\* the batch requeued from the first dead-letter row was dead-lettered in
\* turn: two eligible dead-letter rows of one key, no active batch, and the
\* requeue fails on them
C23_Witness ==
  \E a \in 1..PoisonKeys :
    /\ ActiveOf(a) = {}
    /\ Cardinality(EligibleOf(a)) = 2
    /\ \E d \in EligibleOf(a) : dlq[d].retry_count = 1
    /\ ~requeue_dead_letter_items(batches, dlq, MAINT_REQUEUE_LIMIT).ok

Gates == {k \in tasks : k.fn = "gate"}

\* C24: whenever the rate-limit row records requests_remaining <= 0, a
\* later check of the gate admits the call (at the latest once reset_at
\* has passed), so the row can be written again from a response.
C24_NoPermanentLockout ==
  (api_rate_limits.present /\ api_rate_limits.requests_remaining <= 0)
    ~> (\E k \in Gates : k.pc = "done" /\ k.value = "true")

\* the row written from a response without rate-limit headers, and a check
\* that refused the call after its reset_at had passed
C24_Witness ==
  /\ api_rate_limits = RateLimit(0, Passed)
  /\ \E k \in Gates :
       /\ k.pc = "done" /\ k.value = "false"
       /\ k.rateLimit = api_rate_limits

\* batch i was returned to pending by the retry policy, by worker ticks
\* that ran one after the other, and was not reset since
Retried(i) ==
  /\ batches[i].status = "pending"
  /\ batches[i].seq
  /\ batches[i].fails > 0

\* C25: the retry write leaves claimed_by and claim_expires_at of its batch
\* as the last claim wrote them, and a claim selects a batch that the retry
\* policy returned to pending only after that lease has run out, that is
\* more than 5 minutes after the claim before.
C25_RetryWaitsForLease ==
  [][/\ \A k \in tasks :
          (k.pc = "retry" /\ k \notin tasks' /\ Exists(batches, k.id))
            => /\ batches'[k.id].claimed_by = batches[k.id].claimed_by
               /\ batches'[k.id].claim_expires_at
                    = batches[k.id].claim_expires_at
     /\ \A i \in Ids(batches) :
          Retried(i)
            => /\ batches[i].claimed_by # NULL
               /\ batches[i].claim_expires_at # NULL
               /\ batches'[i].status = "processing"
                    => batches[i].claim_expires_at + Minutes(5)
                         < now + Minutes(5)]_vars

\* a batch that failed, was returned to pending and is dispatched again
C25_Witness ==
  \E i \in Ids(batches) :
    /\ batches[i].status = "processing"
    /\ batches[i].seq
    /\ batches[i].fails > 0
    /\ batches[i].retry_count = batches[i].fails
    /\ batches[i].claim_expires_at = now + Minutes(5)

\* batch i is processing and no dispatch of it is running: its worker died
Abandoned(i) ==
  /\ i \in Ids(batches)
  /\ batches[i].status = "processing"
  /\ \A k \in tasks : k.id # i

\* C26: no claim selects a batch in status processing, however old its
\* lease is; a processing batch whose worker died returns to pending only
\* by reset_expired, no earlier than 30 minutes after its lease ran out,
\* and with maintenance ticks recurring it does return to pending.
C26_ProcessingWaitsForReset ==
  /\ [][\A i \in Ids(batches) :
          batches[i].status = "processing"
            => /\ batches'[i].status = "processing"
                    => batches'[i].claimed_by = batches[i].claimed_by
               /\ (Abandoned(i) /\ batches'[i].status # "processing")
                    => /\ batches'[i].status = "pending"
                       /\ batches'[i].claimed_by = NULL
                       /\ batches[i].claim_expires_at
                            < now - Minutes(MAINT_EXPIRY_MINUTES)]_vars
  /\ \A i \in 1..LiveBatches :
       Abandoned(i) ~> (i \in Ids(batches) /\ batches[i].status = "pending")

\* a batch whose worker died, back in pending after the reset and not yet
\* claimed again
C26_Witness ==
  \E i \in Ids(batches) :
    /\ batches[i].status = "pending"
    /\ batches[i].started_at # NULL
    /\ batches[i].claimed_by = NULL
    /\ batches[i].claim_expires_at = NULL
    /\ \A k \in tasks : k.id # i

\* the batches a claim at this instant may take
ClaimablePending ==
  {j \in Ids(batches) :
     /\ batches[j].status = "pending"
     /\ (batches[j].claim_expires_at = NULL
           \/ batches[j].claim_expires_at < now)}

\* batch i went from pending to processing in this step
Leased(i) ==
  /\ batches[i].status = "pending"
  /\ batches'[i].status = "processing"

\* C27: a claim never leases a batch while it leaves pending a claimable
\* batch with a strictly smaller retry_count, or with the same retry_count
\* and an earlier created_at.
C27_ClaimOrder ==
  [][\A i \in Ids(batches) : \A j \in ClaimablePending :
       (Leased(i) /\ batches'[j].status = "pending")
         => /\ batches[j].retry_count >= batches[i].retry_count
            /\ batches[j].retry_count = batches[i].retry_count
                 => batches[j].created_at > batches[i].created_at]_vars

\* one claim took two fresh batches and left pending a claimable batch that
\* was created before both and has been retried
C27_Witness ==
  \E i1, i2 \in Ids(batches) : \E j \in ClaimablePending :
    /\ i1 # i2
    /\ batches[i1].status = "processing"
    /\ batches[i2].status = "processing"
    /\ batches[i1].claimed_by = batches[i2].claimed_by
    /\ batches[i1].claim_expires_at = now + Minutes(5)
    /\ batches[i1].retry_count < batches[j].retry_count
    /\ batches[i2].retry_count < batches[j].retry_count
    /\ batches[j].created_at < batches[i1].created_at
    /\ batches[j].created_at < batches[i2].created_at

\* the batches reset_expired(30) is to reset
Expired(i) ==
  /\ batches[i].status = "processing"
  /\ batches[i].claim_expires_at # NULL
  /\ batches[i].claim_expires_at < now - Minutes(MAINT_EXPIRY_MINUTES)

\* the columns of a batch that a reset does not write
KeptByReset(row) ==
  <<row.batch_type, row.retry_count, row.metadata, row.started_at,
    row.completed_at, row.items_total, row.items_processed, row.created_at>>

\* a call of reset_expired_batches by maintenance commits in this step
ResetCommits ==
  /\ \E k \in Maintenances : k.pc = "reset_expired_batches"
  /\ \E k \in tasks' :
       /\ k.fn = "maintenance"
       /\ Len(k.calls) = 1
       /\ ~k.calls[1].error

\* C28: reset_expired sets every processing batch whose lease is older than
\* the expiry to pending, clears its claimed_by and claim_expires_at, puts
\* ' Batch expired and was reset.' at the end of its error_message and
\* leaves its retry_count, metadata and started_at as they are; it changes
\* no other batch and no dead-letter row.
C28_ResetFrame ==
  [][ResetCommits
       => /\ dlq' = dlq
          /\ Ids(batches') = Ids(batches)
          /\ \A i \in Ids(batches) :
               IF Expired(i)
               THEN /\ batches'[i].status = "pending"
                    /\ batches'[i].claimed_by = NULL
                    /\ batches'[i].claim_expires_at = NULL
                    /\ KeptByReset(batches'[i]) = KeptByReset(batches[i])
                    /\ LET old == batches[i].error_message
                           new == batches'[i].error_message
                       IN /\ new[Len(new)] = ResetNote
                          /\ SubSeq(new, 1, Len(old)) = old
               ELSE batches'[i] = batches[i]]_vars

\* a reset returned a retried batch to pending beside a batch whose lease
\* is in force
C28_Witness ==
  \E k \in Maintenances : \E i, j \in Ids(batches) :
    /\ Len(k.calls) = 1 /\ ~k.calls[1].error
    /\ k.before.batches[i].status = "processing"
    /\ batches[i].status = "pending"
    /\ batches[i].retry_count = 1
    /\ batches[i].error_message = Append(ErrorMessage, ResetNote)
    /\ batches[i].started_at # NULL
    /\ batches[j].status = "processing"
    /\ batches[j] = k.before.batches[j]

\* time passes in this step
TimePasses ==
  /\ tasks' = tasks
  /\ \E d \in TimeSteps : batches' = Elapse(batches, d)

\* C29: a claim writes to every batch it leases status processing, one
\* worker id for all batches of the call that no lease in force and no
\* running worker carries, and claim_expires_at = claim time + 5 minutes;
\* it sets started_at only where it was unset, and no later claim, retry
\* or reset changes a started_at that is set.
C29_ClaimWrites ==
  [][\A i \in Ids(batches) :
       /\ Leased(i)
            => /\ batches'[i].claimed_by # NULL
               /\ batches'[i].claimed_by \notin UsedWorkerIds
               /\ \A j \in Ids(batches) :
                    Leased(j)
                      => batches'[j].claimed_by = batches'[i].claimed_by
               /\ batches'[i].claim_expires_at = now + Minutes(5)
               /\ batches'[i].started_at
                    = IF batches[i].started_at = NULL
                      THEN now ELSE batches[i].started_at
       /\ (batches[i].started_at # NULL /\ batches'[i].status # "deleted")
            => \/ batches'[i].started_at = batches[i].started_at
               \/ TimePasses]_vars

\* one claim leased a batch for the first time together with a batch that
\* was first claimed earlier and retried
C29_Witness ==
  \E i, j \in Ids(batches) :
    /\ batches[i].status = "processing"
    /\ batches[j].status = "processing"
    /\ batches[i].claimed_by = batches[j].claimed_by
    /\ batches[i].claim_expires_at = now + Minutes(5)
    /\ batches[j].claim_expires_at = now + Minutes(5)
    /\ batches[i].started_at = now
    /\ batches[j].started_at < now
    /\ batches[j].retry_count > 0

\* C30: for a batch of a type with retry limit 5 the n-th failure, n = 1
\* to 5, is answered by a retry scheduled with a backoff of 500 * 2^(n-1)
\* ms: 500, 1000, 2000, 4000 and 8000 ms.
C30_BackoffSchedule ==
  \A k \in tasks :
    (/\ RETRY_LIMITS(k.batch_type) = 5
     /\ k.retryCount # NULL
     /\ k.retryCount <= 5)
      => /\ k.pc \in {"retry", "done"}
         /\ k.backoffDelay
              = <<500, 1000, 2000, 4000, 8000>>[k.retryCount]

\* the fifth failure of an album_page batch, after retries scheduled with
\* 500, 1000, 2000 and 4000 ms: no retry and no backoff of 8000 ms
C30_Witness ==
  \E k \in tasks :
    /\ k.batch_type = "album_page"
    /\ k.retryCount = 5
    /\ k.pc = "exhausted"
    /\ k.backoffDelay = NULL
    /\ batches[k.id].fails = 4

\* the cleanup_old_batches call of a maintenance tick answers in this step
\* without an error
CleanupCommits ==
  \E k \in Maintenances :
    /\ k.pc = "cleanup_old_batches"
    /\ \E k2 \in tasks' :
         /\ k2.fn = "maintenance"
         /\ Len(k2.calls) = Len(k.calls) + 1
         /\ ~k2.calls[Len(k2.calls)].error

\* completed, and completed_at older than days days
OlderThan(i, days) ==
  /\ batches[i].status = "completed"
  /\ batches[i].completed_at # NULL
  /\ batches[i].completed_at < now - Days(days)

\* C31: cleanup(days) deletes exactly the completed batches whose
\* completed_at is older than days days and returns their number; it
\* changes no pending, processing or error batch, no younger completed
\* batch and no dead-letter row.
C31_CleanupFrame ==
  [][CleanupCommits
       => /\ dlq' = dlq
          /\ Ids(batches') = Ids(batches)
          /\ \A i \in Ids(batches) :
               IF OlderThan(i, MAINT_CLEANUP_DAYS)
               THEN ~Exists(batches', i)
               ELSE batches'[i] = batches[i]
          /\ \A k2 \in tasks' :
               k2.calls[Len(k2.calls)].data
                 = Cardinality({i \in Ids(batches) :
                                  OlderThan(i, MAINT_CLEANUP_DAYS)})]_vars

\* a cleanup deleted a batch completed more than 7 days ago, returned 1 and
\* left a batch completed exactly 7 days ago and a batch in status error
C31_Witness ==
  \E k \in Maintenances : \E i, j, e \in Ids(batches) :
    /\ Len(k.calls) = 3
    /\ k.calls[3].fn = "cleanup_old_batches"
    /\ ~k.calls[3].error /\ k.calls[3].data = 1
    /\ i \in Ids(k.before.batches)
    /\ k.before.batches[i].status = "completed"
    /\ ~Exists(batches, i)
    /\ batches[j].status = "completed"
    /\ batches[j].completed_at = now - Days(MAINT_CLEANUP_DAYS)
    /\ batches[e].status = "error"

\* the handler invoked for the dispatch k answers in this step
HandlerAnswers(k) ==
  /\ k.pc = "fetch"
  /\ \E k2 \in tasks' : k2.wid = k.wid /\ k2.id = k.id /\ k2.pc # "fetch"

DueAt(m) ==
  SelectSeq(<<"discover-artists", "maintenance", "worker", "monitor">>,
            LAMBDA f :
              \/ f = "discover-artists" /\ m = 0
              \/ f = "maintenance" /\ m % 15 = 0
              \/ f = "worker" /\ m % 2 = 0
              \/ f = "monitor" /\ m % 30 = 0)

Ticks == {k \in tasks : k.fn = "tick"}

\* C33: a scheduler tick invokes every target whose pattern matches the
\* current minute exactly once and in table order; a failed invocation is
\* recorded as an error result, is not repeated and does not keep the
\* remaining matching targets from being invoked; at minute 0 all four
\* targets are invoked.
C33_TickInvokesEveryDueTarget ==
  \A k \in Ticks :
    /\ Len(k.results) = Len(k.fetches)
    /\ \A r \in DOMAIN k.results :
         /\ k.results[r].function = k.fetches[r]
         /\ k.results[r].status = IF k.answers[r] THEN "invoked" ELSE "error"
    /\ k.entry > Len(SCHEDULES)
         => /\ k.fetches = DueAt(k.startMinute)
            /\ k.startMinute = 0 => Len(k.fetches) = 4

\* the tick of minute 0 ended with four results, the invocation of
\* maintenance failed and worker and monitor were invoked after it
C33_Witness ==
  \E k \in Ticks :
    /\ k.startMinute = 0 /\ k.entry > Len(SCHEDULES)
    /\ Len(k.results) = 4
    /\ k.results[2] = [function |-> "maintenance", status |-> "error"]
    /\ k.results[3] = [function |-> "worker", status |-> "invoked"]
    /\ k.results[4] = [function |-> "monitor", status |-> "invoked"]

WorkerTicks == {k \in tasks : k.fn = "worker"}

\* C34: when the claim call of a worker tick fails with a store error, the
\* tick ends there: it invokes no handler, changes no batch and no
\* dead-letter row, and answers {claimed: 0, error} with HTTP status 200.
C34_ClaimErrorAbortsTick ==
  \A k \in WorkerTicks :
    k.rpc.error
      => /\ k.invoked = {} /\ k.claimed = {}
         /\ batches = k.before.batches /\ dlq = k.before.dlq
         /\ k.pc \in {"catch", "respond", "done"}
         /\ k.pc \in {"respond", "done"}
              => k.result = [claimed |-> 0, completed |-> NULL,
                             failed |-> NULL, error |-> ClaimError]
         /\ k.pc = "done" => k.status = 200

\* a tick whose claim call failed while a batch was claimable has answered
\* with status 200; the batch is still pending
C34_Witness ==
  \E k \in WorkerTicks :
    /\ k.rpc.error /\ k.pc = "done" /\ k.status = 200
    /\ k.result.claimed = 0 /\ k.result.error = ClaimError
    /\ claimable_batches(batches, now) # {}

HandlerRuns == {k \in tasks : k.fn = "handler"}

\* C35: a handler that succeeds a second time on the same metadata, the
\* API returning the same page, leaves the batch table, with the child
\* batches it emits, as it was left by its first successful run and the
\* steps since: the second run adds nothing.
C35_HandlerIdempotent ==
  \A k1, k2 \in HandlerRuns :
    (/\ k1.ok /\ k2.ok
     /\ k1.run < k2.run
     /\ k1.batch_type = k2.batch_type /\ k1.metadata = k2.metadata
     /\ k1.child = k2.child)
      => k2.inserted = 0

\* a handler succeeded twice on the same metadata while the child of its
\* first run was still active: the second insert was refused
C35_Witness ==
  \E k1, k2 \in HandlerRuns :
    /\ k1.ok /\ k2.ok /\ k1.run < k2.run
    /\ k1.batch_type = k2.batch_type /\ k1.metadata = k2.metadata
    /\ k1.child = k2.child
    /\ k1.inserted = 1
    /\ k2.inserted = 0

\* the resolutions made by the dispatcher
Resolutions == {k \in tasks : k.fn = "resolve"}

\* C36: the dispatcher resolves album_discovery and album_page to
\* process-album-page, track_discovery and track_page to
\* process-track-page, producer_discovery to identify-producers, and every
\* other batch_type to a handler of the same name as the batch_type
C36_HandlerResolution ==
  \A k \in Resolutions :
    /\ k.batchType \in {"album_discovery", "album_page"}
         => k.functionName = "process-album-page"
    /\ k.batchType \in {"track_discovery", "track_page"}
         => k.functionName = "process-track-page"
    /\ k.batchType = "producer_discovery"
         => k.functionName = "identify-producers"
    /\ k.batchType \notin {"album_discovery", "album_page", "track_discovery",
                           "track_page", "producer_discovery"}
         => k.functionName = k.batchType
    /\ k.url = <<"functions", "v1", k.functionName>>

\* a claim of a track_discovery batch and a batch of a kind the dispatcher
\* does not name, both resolved
C36_Witness ==
  \E k1, k2 \in Resolutions :
    /\ k1.batchType = "track_discovery"
    /\ k1.functionName = "process-track-page"
    /\ k2.batchType = "artist_discovery"
    /\ k2.functionName = "artist_discovery"

====
